---- MODULE Spec2Model ----
(***************************************************************************)
(* Model of the ReleaseRun badges GitHub Action (src/src/index.ts,         *)
(* src/src/badges.ts, src/src/readme.ts).                                  *)
(*                                                                         *)
(* JavaScript strings are TLA+ strings; TLC evaluates Len, SubSeq and \o   *)
(* on them, so the string functions of the source are computed character   *)
(* by character.  JavaScript's `undefined` only ever arises in this code   *)
(* as the value of `x || undefined` or of a missing sha, and is the empty  *)
(* string here.                                                            *)
(***************************************************************************)
EXTENDS Integers, Sequences, FiniteSets, TLC

(***************************************************************************)
(* String primitives of the JavaScript runtime, with 0-based indices as in *)
(* the source.                                                             *)
(***************************************************************************)
undefined == ""

charAt(s, i) == SubSeq(s, i + 1, i + 1)

substring(s, from, to) == SubSeq(s, from + 1, to)

substringFrom(s, from) == SubSeq(s, from + 1, Len(s))

indexOf(s, pat) ==
  LET hits == {i \in 0..(Len(s) - Len(pat)) : substring(s, i, i + Len(pat)) = pat}
  IN  IF hits = {} THEN -1 ELSE CHOOSE i \in hits : \A j \in hits : i <= j

includes(s, pat) == indexOf(s, pat) # -1

startsWith(s, pat) == Len(pat) <= Len(s) /\ substring(s, 0, Len(pat)) = pat

endsWith(s, pat) == Len(pat) <= Len(s) /\ substringFrom(s, Len(s) - Len(pat)) = pat

Chars(s) == {charAt(s, i) : i \in 0..(Len(s) - 1)}

LowerLetters == "abcdefghijklmnopqrstuvwxyz"
UpperLetters == "ABCDEFGHIJKLMNOPQRSTUVWXYZ"
Digits == "0123456789"

LowerSet == Chars(LowerLetters)
UpperSet == Chars(UpperLetters)
DigitSet == Chars(Digits)

isLower(c) == c \in LowerSet
isUpper(c) == c \in UpperSet
isDigit(c) == c \in DigitSet

\* The white space String.prototype.trim removes (the ASCII part of it).
WhiteSpace == {" ", "\t", "\n", "\r", "\f"}

\* Index of the first character of s that is in set, or Len(s).
firstOf(s, set) ==
  LET hits == {i \in 0..(Len(s) - 1) : charAt(s, i) \in set}
  IN  IF hits = {} THEN Len(s) ELSE CHOOSE i \in hits : \A j \in hits : i <= j

\* Index of the first character of s that is not in set, or Len(s).
firstNotOf(s, set) ==
  LET hits == {i \in 0..(Len(s) - 1) : charAt(s, i) \notin set}
  IN  IF hits = {} THEN Len(s) ELSE CHOOSE i \in hits : \A j \in hits : i <= j

\* Index after the last character of s that is not in set, or 0.
lastNotOf(s, set) ==
  LET hits == {i \in 0..(Len(s) - 1) : charAt(s, i) \notin set}
  IN  IF hits = {} THEN 0 ELSE 1 + CHOOSE i \in hits : \A j \in hits : i >= j

trim(s) ==
  IF firstNotOf(s, WhiteSpace) = Len(s) THEN ""
  ELSE substring(s, firstNotOf(s, WhiteSpace), lastNotOf(s, WhiteSpace))

\* The concatenation of the strings pieces[lo], ..., pieces[hi].
RECURSIVE concat(_, _, _)
concat(pieces, lo, hi) ==
  IF lo > hi THEN ""
  ELSE IF lo = hi THEN pieces[lo]
  ELSE LET mid == (lo + hi) \div 2
       IN  concat(pieces, lo, mid) \o concat(pieces, mid + 1, hi)

\* The concatenation of the lists lists[lo], ..., lists[hi].
RECURSIVE flatten(_, _, _)
flatten(lists, lo, hi) ==
  IF lo > hi THEN <<>>
  ELSE IF lo = hi THEN lists[lo]
  ELSE LET mid == (lo + hi) \div 2
       IN  flatten(lists, lo, mid) \o flatten(lists, mid + 1, hi)

lowerChar(c) ==
  IF isUpper(c) THEN charAt(LowerLetters, indexOf(UpperLetters, c)) ELSE c

toLowerCase(s) == concat([i \in 1..Len(s) |-> lowerChar(charAt(s, i - 1))], 1, Len(s))

\* s.split(sep) for a separator of one character: always at least one piece.
split(s, sep) ==
  LET at     == {i \in 0..(Len(s) - 1) : charAt(s, i) = sep}
      n      == Cardinality(at)
      \* the k-th separator, k in 1..n; 0 stands for -1 and n+1 for Len(s)
      pos(k) == IF k = 0 THEN -1
                ELSE IF k = n + 1 THEN Len(s)
                ELSE CHOOSE i \in at : Cardinality({j \in at : j < i}) = k - 1
  IN  [k \in 1..(n + 1) |-> substring(s, pos(k - 1) + 1, pos(k))]

join(parts, sep) ==
  concat([i \in 1..Len(parts) |-> IF i = 1 THEN parts[i] ELSE sep \o parts[i]],
         1, Len(parts))

includesElem(list, x) == \E i \in 1..Len(list) : list[i] = x

filterNonEmpty(parts) == SelectSeq(parts, LAMBDA part : Len(part) > 0)

(***************************************************************************)
(* src/src/badges.ts                                                       *)
(***************************************************************************)
MAX_PRODUCTS == 50

VALID_BADGE_TYPES == <<"health", "eol", "freshness", "cve", "cloud">>

\* /^[a-z0-9][a-z0-9._-]*$/
PRODUCT_PATTERN(s) ==
  /\ Len(s) > 0
  /\ isLower(charAt(s, 0)) \/ isDigit(charAt(s, 0))
  /\ \A i \in 1..(Len(s) - 1) :
       LET c == charAt(s, i) IN isLower(c) \/ isDigit(c) \/ c \in {".", "_", "-"}

\* /^[a-zA-Z0-9][a-zA-Z0-9._-]*$/
VERSION_PATTERN(s) ==
  /\ Len(s) > 0
  /\ LET c == charAt(s, 0) IN isLower(c) \/ isUpper(c) \/ isDigit(c)
  /\ \A i \in 1..(Len(s) - 1) :
       LET c == charAt(s, i)
       IN  isLower(c) \/ isUpper(c) \/ isDigit(c) \/ c \in {".", "_", "-"}

\* Variant: any non-empty name passes.
validateProductLoose(name) == Len(name) > 0

validateProduct(name) == PRODUCT_PATTERN(name)

\* Variant: any version passes.
validateVersionLoose(version) == TRUE

validateVersion(version) == version = "latest" \/ VERSION_PATTERN(version)

\* Variant: any type passes.
validateBadgeTypeLoose(type) == TRUE

validateBadgeType(type) == includesElem(VALID_BADGE_TYPES, type)

\* The loop body of parseProducts for one line: what it appends to
\* products and to warnings.
parseLine(line) ==
  LET colonIdx == indexOf(line, ":")
      name     == IF colonIdx = -1 THEN line ELSE substring(line, 0, colonIdx)
      version  == IF colonIdx = -1 THEN undefined ELSE substringFrom(line, colonIdx + 1)
  IN  IF ~validateProduct(name)
      THEN [products |-> <<>>,
            warnings |-> <<"Skipping invalid product name: \"" \o name \o "\"">>]
      ELSE IF version # "" /\ ~validateVersion(version)
      THEN [products |-> <<>>,
            warnings |-> <<"Skipping invalid version \"" \o version
                           \o "\" for product \"" \o name \o "\"">>]
      ELSE [products |-> <<[product |-> name, version |-> version]>>,
            warnings |-> <<>>]

parseLines(lines) ==
  LET each == [i \in 1..Len(lines) |-> parseLine(lines[i])]
  IN  [products |-> flatten([i \in 1..Len(lines) |-> each[i].products], 1, Len(lines)),
       warnings |-> flatten([i \in 1..Len(lines) |-> each[i].warnings], 1, Len(lines))]

\* Variant: the warning is pushed but every line is processed.
parseProductsUncapped(input) ==
  LET parts == split(input, "\n")
      lines == filterNonEmpty([i \in 1..Len(parts) |-> trim(parts[i])])
      capWarning ==
        IF Len(lines) > MAX_PRODUCTS
        THEN <<"Maximum of " \o ToString(MAX_PRODUCTS)
               \o " products allowed. Only the first " \o ToString(MAX_PRODUCTS)
               \o " will be processed.">>
        ELSE <<>>
      parsed == parseLines(lines)
  IN  [products |-> parsed.products, warnings |-> capWarning \o parsed.warnings]

parseProducts(input) ==
  LET parts == split(input, "\n")
      lines == filterNonEmpty([i \in 1..Len(parts) |-> trim(parts[i])])
      capWarning ==
        IF Len(lines) > MAX_PRODUCTS
        THEN <<"Maximum of " \o ToString(MAX_PRODUCTS)
               \o " products allowed. Only the first " \o ToString(MAX_PRODUCTS)
               \o " will be processed.">>
        ELSE <<>>
      linesToProcess ==
        IF Len(lines) > MAX_PRODUCTS THEN SubSeq(lines, 1, MAX_PRODUCTS) ELSE lines
      parsed == parseLines(linesToProcess)
  IN  [products |-> parsed.products, warnings |-> capWarning \o parsed.warnings]

parseBadgeTypes(input) ==
  LET parts == split(input, ",")
      types == filterNonEmpty([i \in 1..Len(parts) |-> toLowerCase(trim(parts[i]))])
      valid == SelectSeq(types, validateBadgeType)
  IN  IF Len(valid) > 0 THEN valid ELSE <<"health">>

\* The printable ASCII characters 0x20..0x5F and 0x61..0x7E, in code order
\* (0x60, the backquote, cannot be written in a TLA+ string).
AsciiLow == " !\"#$%&'()*+,-./0123456789:;<=>?@ABCDEFGHIJKLMNOPQRSTUVWXYZ[\\]^_"
AsciiHigh == "abcdefghijklmnopqrstuvwxyz{|}~"

CharCodes ==
  [c \in Chars(AsciiLow) \cup Chars(AsciiHigh) \cup {"\t", "\n", "\f", "\r"} |->
     IF c = "\t" THEN 9 ELSE IF c = "\n" THEN 10 ELSE IF c = "\f" THEN 12
     ELSE IF c = "\r" THEN 13
     ELSE IF includes(AsciiLow, c) THEN 32 + indexOf(AsciiLow, c)
     ELSE 97 + indexOf(AsciiHigh, c)]

charCode(c) == CharCodes[c]

\* encodeURIComponent leaves A-Z a-z 0-9 - _ . ! ~ * ' ( ) alone and
\* percent-encodes the UTF-8 bytes of every other character.
encodeChar(c) ==
  IF isLower(c) \/ isUpper(c) \/ isDigit(c)
     \/ c \in {"-", "_", ".", "!", "~", "*", "'", "(", ")"}
  THEN c
  ELSE "%" \o charAt("0123456789ABCDEF", charCode(c) \div 16)
           \o charAt("0123456789ABCDEF", charCode(c) % 16)

encodeURIComponent(s) ==
  concat([i \in 1..Len(s) |-> encodeChar(charAt(s, i - 1))], 1, Len(s))

\* Variant: the style is appended whenever one is given.
getBadgeUrlAlwaysStyled(type, product, version, style, baseUrl) ==
  LET base == IF baseUrl # "" THEN baseUrl ELSE "https://img.releaserun.com/badge"
      path == IF version # ""
              THEN type \o "/" \o product \o "/" \o version \o ".svg"
              ELSE type \o "/" \o product \o ".svg"
      url  == base \o "/" \o path
  IN  IF style # "" THEN url \o "?style=" \o encodeURIComponent(style) ELSE url

getBadgeUrl(type, product, version, style, baseUrl) ==
  LET base == IF baseUrl # "" THEN baseUrl ELSE "https://img.releaserun.com/badge"
      path == IF version # ""
              THEN type \o "/" \o product \o "/" \o version \o ".svg"
              ELSE type \o "/" \o product \o ".svg"
      url  == base \o "/" \o path
  IN  IF style # "" /\ style # "flat"
      THEN url \o "?style=" \o encodeURIComponent(style)
      ELSE url

\* Variant: without a link mode the badge links to the home page.
getLinkUrlNoneIsHome(linkTo, product, badgeUrl) ==
  CASE linkTo = "badge-page" -> "https://releaserun.com/badges/" \o product \o "/"
    [] linkTo = "releaserun" -> "https://releaserun.com"
    [] linkTo = "none"       -> "https://releaserun.com"
    [] OTHER                 -> "undefined"

\* A switch with no default: any other linkTo falls out with undefined.
getLinkUrl(linkTo, product, badgeUrl) ==
  CASE linkTo = "badge-page" -> "https://releaserun.com/badges/" \o product \o "/"
    [] linkTo = "releaserun" -> "https://releaserun.com"
    [] linkTo = "none"       -> badgeUrl
    [] OTHER                 -> "undefined"

getBadgeLabel(type, product, version) ==
  LET versionSuffix == IF version # "" THEN " " \o version ELSE ""
  IN  CASE type = "health"    -> product \o versionSuffix \o " health"
        [] type = "eol"       -> product \o versionSuffix \o " EOL"
        [] type = "freshness" -> product \o versionSuffix \o " freshness"
        [] type = "cve"       -> product \o versionSuffix \o " CVEs"
        [] type = "cloud"     -> product \o versionSuffix \o " cloud"
        [] OTHER              -> "undefined"

generateBadgeMarkdown(product, type, style, linkTo, baseUrl) ==
  LET badgeUrl == getBadgeUrl(type, product.product, product.version, style, baseUrl)
      linkUrl  == getLinkUrl(linkTo, product.product, badgeUrl)
      label    == getBadgeLabel(type, product.product, product.version)
  IN  "[![" \o label \o "](" \o badgeUrl \o ")](" \o linkUrl \o ")"

\* Variant: the lines of the products are joined with a space.
generateAllBadgesOneLine(products, badgeTypes, style, linkTo, baseUrl) ==
  LET badges(p) == [i \in 1..Len(badgeTypes) |->
                      generateBadgeMarkdown(products[p], badgeTypes[i], style, linkTo, baseUrl)]
      lines == [p \in 1..Len(products) |-> join(badges(p), " ")]
  IN  join(lines, " ")

generateAllBadges(products, badgeTypes, style, linkTo, baseUrl) ==
  LET badges(p) == [i \in 1..Len(badgeTypes) |->
                      generateBadgeMarkdown(products[p], badgeTypes[i], style, linkTo, baseUrl)]
      lines == [p \in 1..Len(products) |-> join(badges(p), " ")]
  IN  join(lines, "\n")

(***************************************************************************)
(* src/src/readme.ts                                                       *)
(***************************************************************************)
START_MARKER == "<!-- releaserun-badges-start -->"
END_MARKER == "<!-- releaserun-badges-end -->"

\* Variant: the splice never compares the new content with the old.
updateReadmeContentAlwaysChanged(readme, badges) ==
  LET startIdx == indexOf(readme, START_MARKER)
      endIdx   == indexOf(readme, END_MARKER)
  IN  IF startIdx = -1 \/ endIdx = -1 \/ endIdx < startIdx
      THEN [updated |-> FALSE, content |-> readme, markersFound |-> FALSE]
      ELSE [updated |-> TRUE,
            content |-> substring(readme, 0, startIdx + Len(START_MARKER)) \o "\n"
                        \o badges \o "\n" \o substringFrom(readme, endIdx),
            markersFound |-> TRUE]

\* Variant: a document without markers gets a badge block appended.
updateReadmeContentAppending(readme, badges) ==
  LET startIdx == indexOf(readme, START_MARKER)
      endIdx   == indexOf(readme, END_MARKER)
  IN  IF startIdx = -1 \/ endIdx = -1 \/ endIdx < startIdx
      THEN [updated |-> TRUE,
            content |-> readme \o "\n" \o START_MARKER \o "\n" \o badges \o "\n"
                        \o END_MARKER,
            markersFound |-> TRUE]
      ELSE LET newContent == substring(readme, 0, startIdx + Len(START_MARKER)) \o "\n"
                             \o badges \o "\n" \o substringFrom(readme, endIdx)
           IN  [updated |-> newContent # readme, content |-> newContent,
                markersFound |-> TRUE]

\* Variant: the kept tail starts after the end marker.
updateReadmeContentDroppingEnd(readme, badges) ==
  LET startIdx == indexOf(readme, START_MARKER)
      endIdx   == indexOf(readme, END_MARKER)
  IN  IF startIdx = -1 \/ endIdx = -1 \/ endIdx < startIdx
      THEN [updated |-> FALSE, content |-> readme, markersFound |-> FALSE]
      ELSE LET newContent == substring(readme, 0, startIdx + Len(START_MARKER)) \o "\n"
                             \o badges \o "\n"
                             \o substringFrom(readme, endIdx + Len(END_MARKER))
           IN  [updated |-> newContent # readme, content |-> newContent,
                markersFound |-> TRUE]

\* Variant: the order of the two markers is not looked at.
updateReadmeContentUnordered(readme, badges) ==
  LET startIdx == indexOf(readme, START_MARKER)
      endIdx   == indexOf(readme, END_MARKER)
  IN  IF startIdx = -1 \/ endIdx = -1
      THEN [updated |-> FALSE, content |-> readme, markersFound |-> FALSE]
      ELSE LET newContent == substring(readme, 0, startIdx + Len(START_MARKER)) \o "\n"
                             \o badges \o "\n" \o substringFrom(readme, endIdx)
           IN  [updated |-> newContent # readme, content |-> newContent,
                markersFound |-> TRUE]

\* Variant: the markup is put in front of the end marker and what was
\* between the markers stays.
updateReadmeContentKeepingOld(readme, badges) ==
  LET startIdx == indexOf(readme, START_MARKER)
      endIdx   == indexOf(readme, END_MARKER)
  IN  IF startIdx = -1 \/ endIdx = -1 \/ endIdx < startIdx
      THEN [updated |-> FALSE, content |-> readme, markersFound |-> FALSE]
      ELSE LET newContent == substring(readme, 0, endIdx) \o "\n"
                             \o badges \o "\n" \o substringFrom(readme, endIdx)
           IN  [updated |-> newContent # readme, content |-> newContent,
                markersFound |-> TRUE]

updateReadmeContent(readme, badges) ==
  LET startIdx == indexOf(readme, START_MARKER)
      endIdx   == indexOf(readme, END_MARKER)
  IN  IF startIdx = -1 \/ endIdx = -1
      THEN [updated |-> FALSE, content |-> readme, markersFound |-> FALSE]
      ELSE IF endIdx < startIdx
      THEN [updated |-> FALSE, content |-> readme, markersFound |-> FALSE]
      ELSE LET before     == substring(readme, 0, startIdx + Len(START_MARKER))
               after      == substringFrom(readme, endIdx)
               newContent == before \o "\n" \o badges \o "\n" \o after
               changed    == newContent # readme
           IN  [updated |-> changed, content |-> newContent, markersFound |-> TRUE]

hasMarkers(readme) == includes(readme, START_MARKER) /\ includes(readme, END_MARKER)

(***************************************************************************)
(* Runtime functions src/src/index.ts calls: Buffer base64, path.resolve   *)
(* and the URL parser, each computed on ASCII input.                       *)
(***************************************************************************)
Base64Alphabet == "ABCDEFGHIJKLMNOPQRSTUVWXYZabcdefghijklmnopqrstuvwxyz0123456789+/"

\* The four base64 characters of the bytes of s at offsets i, i+1, i+2.
base64Group(s, i) ==
  LET n  == Len(s) - i
      b1 == charCode(charAt(s, i))
      b2 == IF n > 1 THEN charCode(charAt(s, i + 1)) ELSE 0
      b3 == IF n > 2 THEN charCode(charAt(s, i + 2)) ELSE 0
  IN  charAt(Base64Alphabet, b1 \div 4)
      \o charAt(Base64Alphabet, (b1 % 4) * 16 + b2 \div 16)
      \o (IF n > 1 THEN charAt(Base64Alphabet, (b2 % 16) * 4 + b3 \div 64) ELSE "=")
      \o (IF n > 2 THEN charAt(Base64Alphabet, b3 % 64) ELSE "=")

\* Buffer.from(s).toString('base64')
base64(s) ==
  LET groups == (Len(s) + 2) \div 3
  IN  concat([k \in 1..groups |-> base64Group(s, 3 * (k - 1))], 1, groups)

lastIndexOf(s, pat) ==
  LET hits == {i \in 0..(Len(s) - Len(pat)) : substring(s, i, i + Len(pat)) = pat}
  IN  IF hits = {} THEN -1 ELSE CHOOSE i \in hits : \A j \in hits : i >= j

\* The segments of a POSIX path after normalisation: "" and "." vanish,
\* ".." removes the segment before it.
RECURSIVE normalizeSegments(_, _)
normalizeSegments(segs, stack) ==
  IF Len(segs) = 0 THEN stack
  ELSE IF segs[1] = "" \/ segs[1] = "." THEN normalizeSegments(Tail(segs), stack)
  ELSE IF segs[1] = ".."
  THEN normalizeSegments(Tail(segs),
                         IF Len(stack) = 0 THEN stack ELSE SubSeq(stack, 1, Len(stack) - 1))
  ELSE normalizeSegments(Tail(segs), Append(stack, segs[1]))

\* path.resolve(p) on POSIX with the working directory cwd.
pathResolve(cwd, p) ==
  LET absolute == IF startsWith(p, "/") THEN p ELSE cwd \o "/" \o p
  IN  "/" \o join(normalizeSegments(split(absolute, "/"), <<>>), "/")

removeChars(s, set) ==
  concat([i \in 1..Len(s) |-> IF charAt(s, i - 1) \in set THEN "" ELSE charAt(s, i - 1)],
         1, Len(s))

HexSet == DigitSet \cup Chars("abcdefABCDEF")

hexValue(c) == indexOf("0123456789abcdef", lowerChar(c))

\* Whether a percent escape of the ASCII range 0x20-0x7E starts at index i.
escapeAt(s, i) ==
  /\ i >= 0 /\ i + 2 < Len(s)
  /\ charAt(s, i) = "%"
  /\ charAt(s, i + 1) \in HexSet /\ charAt(s, i + 2) \in HexSet
  /\ 16 * hexValue(charAt(s, i + 1)) + hexValue(charAt(s, i + 2)) \in (32..95) \cup (97..126)

\* Percent-decoding of the ASCII range; a byte outside it stays encoded
\* (the host parser then fails on the "%").
percentDecode(s) ==
  concat([k \in 1..Len(s) |->
            LET i == k - 1
            IN  IF escapeAt(s, i)
                THEN LET n == 16 * hexValue(charAt(s, i + 1)) + hexValue(charAt(s, i + 2))
                     IN  IF n >= 32 /\ n < 96 THEN charAt(AsciiLow, n - 32)
                         ELSE charAt(AsciiHigh, n - 97)
                ELSE IF escapeAt(s, i - 1) \/ escapeAt(s, i - 2) THEN ""
                ELSE charAt(s, i)],
         1, Len(s))

RECURSIVE toNumber(_)
toNumber(s) ==
  IF s = "" THEN 0
  ELSE 10 * toNumber(substring(s, 0, Len(s) - 1)) + indexOf(Digits, charAt(s, Len(s) - 1))

allDigits(s) == \A i \in 0..(Len(s) - 1) : isDigit(charAt(s, i))

InvalidURL == [valid |-> FALSE, protocol |-> "", hostname |-> ""]

\* Whether a label of a host is a number for the URL parser: decimal digits,
\* or 0x and hexadecimal digits.
isNumericLabel(label) ==
  /\ label # ""
  /\ \/ allDigits(label)
     \/ /\ Len(label) >= 2 /\ substring(label, 0, 2) = "0x"
        /\ \A i \in 2..(Len(label) - 1) : charAt(label, i) \in HexSet

\* Whether the labels are four decimal numbers up to 255 with no leading zero,
\* the one form the IPv4 parser returns unchanged.
isCanonicalIPv4(labels) ==
  /\ Len(labels) = 4
  /\ \A i \in 1..4 : /\ labels[i] # "" /\ allDigits(labels[i])
                     /\ Len(labels[i]) <= 3 /\ toNumber(labels[i]) <= 255
                     /\ (Len(labels[i]) > 1 => charAt(labels[i], 0) # "0")

\* The host parser on a lower-cased, percent-decoded domain and its labels.  A
\* host whose last label (a trailing empty label aside) is a number goes
\* through the IPv4 parser, which fails or yields a dotted quad: the dotted
\* quad is computed for the canonical form only, every other numeric host is
\* reported as a failure (isValidBadgeServiceUrl rejects both alike).
hostFromLabels(domain, labels) ==
  LET n == IF Len(labels) > 1 /\ labels[Len(labels)] = "" THEN Len(labels) - 1
           ELSE Len(labels)
  IN  IF \/ domain = ""
         \/ Chars(domain) \cap (WhiteSpace \cup {"#", "/", ":", "<", ">", "?", "@", "[", "\\",
                                                "]", "^", "|", "%"}) # {}
      THEN InvalidURL
      ELSE IF isNumericLabel(labels[n]) /\ ~isCanonicalIPv4(labels) THEN InvalidURL
      ELSE [valid |-> TRUE, protocol |-> "https:", hostname |-> domain]

\* The host of an https URL: the domain lower-cased and percent-decoded.
parseHost(host) ==
  LET domain == toLowerCase(percentDecode(host))
  IN  hostFromLabels(domain, split(domain, "."))

\* host[:port], or a bracketed IPv6 literal, whose hostname keeps the
\* brackets.  The port must be decimal digits and at most 65535.
urlFromHostPort(hostport, portIdx) ==
  IF startsWith(hostport, "[")
  THEN [valid |-> endsWith(hostport, "]") \/ includes(hostport, "]:"),
        protocol |-> "https:", hostname |-> hostport]
  ELSE IF portIdx = -1 THEN parseHost(hostport)
  ELSE LET port == substringFrom(hostport, portIdx + 1)
       IN  IF ~(allDigits(port)
                /\ (port = "" \/ (Len(port) <= 5 /\ toNumber(port) <= 65535)))
           THEN InvalidURL
           ELSE parseHost(substring(hostport, 0, portIdx))

\* The authority's host and port: what follows the last "@".
urlFromAuthority(authority) ==
  urlFromHostPort(substringFrom(authority, lastIndexOf(authority, "@") + 1),
                  lastIndexOf(substringFrom(authority, lastIndexOf(authority, "@") + 1), ":"))

urlFromScheme(input, colon) ==
  IF colon <= 0 THEN InvalidURL
  ELSE IF ~(isLower(lowerChar(charAt(input, 0)))
            /\ Chars(substring(input, 0, colon)) \subseteq
                 LowerSet \cup UpperSet \cup DigitSet \cup {"+", "-", "."})
  THEN InvalidURL
  ELSE IF toLowerCase(substring(input, 0, colon)) # "https"
  THEN [valid |-> TRUE, protocol |-> toLowerCase(substring(input, 0, colon)) \o ":",
        hostname |-> ""]
  ELSE \* What follows "https:": any slashes, then the authority up to the
       \* path, query or fragment.
       LET after == substringFrom(input, colon + 1)
           rest  == substringFrom(after, firstNotOf(after, {"/", "\\"}))
       IN  urlFromAuthority(substring(rest, 0, firstOf(rest, {"/", "\\", "?", "#"})))

\* new URL(url) without a base: whether it parses, its protocol and its
\* hostname.  Only the https authority is parsed in detail; for any other
\* scheme the caller looks at the protocol alone.
parseURL(url) ==
  LET input == removeChars(trim(url), {"\t", "\n", "\r"})
  IN  urlFromScheme(input, indexOf(input, ":"))

\* /^\d{1,3}(\.\d{1,3}){3}$/
isDottedQuad(hostname) ==
  LET labels == split(hostname, ".")
  IN  /\ Len(labels) = 4
      /\ \A i \in 1..4 : Len(labels[i]) \in 1..3 /\ allDigits(labels[i])

(***************************************************************************)
(* src/src/index.ts                                                        *)
(***************************************************************************)
\* Variant: the host only has to end with releaserun.com.
isValidParsedUrlNaiveSuffix(parsed) ==
  IF ~parsed.valid THEN FALSE
  ELSE IF parsed.protocol # "https:" THEN FALSE
  ELSE IF \/ isDottedQuad(parsed.hostname) \/ startsWith(parsed.hostname, "[")
          \/ parsed.hostname = "::1"
  THEN FALSE
  ELSE IF parsed.hostname = "localhost" \/ parsed.hostname = "127.0.0.1" THEN FALSE
  ELSE endsWith(parsed.hostname, "releaserun.com")

\* Lines 17-38, on the parsed URL.
isValidParsedUrl(parsed) ==
  IF ~parsed.valid THEN FALSE
  ELSE IF parsed.protocol # "https:" THEN FALSE
  ELSE IF \/ isDottedQuad(parsed.hostname) \/ startsWith(parsed.hostname, "[")
          \/ parsed.hostname = "::1"
  THEN FALSE
  ELSE IF parsed.hostname = "localhost" \/ parsed.hostname = "127.0.0.1" THEN FALSE
  ELSE IF parsed.hostname # "releaserun.com" /\ ~endsWith(parsed.hostname, ".releaserun.com")
  THEN FALSE
  ELSE TRUE

isValidBadgeServiceUrl(url) == isValidParsedUrl(parseURL(url))

\* /[\x00-\x1f\x7f ~^:?*\[\\]/
RefForbiddenChars == {"\t", "\n", "\f", "\r", " ", "~", "^", ":", "?", "*", "[", "\\"}

\* Variant: the test for a name ending with .lock is missing.
invalidPrBranchNoLock(prBranch) ==
  \/ includes(prBranch, "..")
  \/ startsWith(prBranch, "/")
  \/ endsWith(prBranch, "/")
  \/ Chars(prBranch) \cap RefForbiddenChars # {}

\* Variant: the test for ".." is missing.
invalidPrBranchNoDots(prBranch) ==
  \/ startsWith(prBranch, "/")
  \/ endsWith(prBranch, "/")
  \/ endsWith(prBranch, ".lock")
  \/ Chars(prBranch) \cap RefForbiddenChars # {}

\* The pr-branch test of lines 52-53: TRUE when the name is rejected.
invalidPrBranch(prBranch) ==
  \/ includes(prBranch, "..")
  \/ startsWith(prBranch, "/")
  \/ endsWith(prBranch, "/")
  \/ endsWith(prBranch, ".lock")
  \/ Chars(prBranch) \cap RefForbiddenChars # {}

validStyles == <<"flat", "flat-square", "plastic", "for-the-badge">>

validLinkTo == <<"badge-page", "releaserun", "none">>

(***************************************************************************)
(* State of one run of run(): the action inputs and the process            *)
(* environment, the local document, the remote's open pull requests, the   *)
(* constants and variables of run() under their own names, and the ordered *)
(* record of every call run() makes to @actions/core, fs and the octokit   *)
(* client (with the outcome of each call that can fail).                   *)
(***************************************************************************)
VARIABLES
  pc,               \* the next step of run()
  runs,             \* runs started so far against this remote
  inputs,           \* action inputs: name -> string
  env,              \* process.env, process.cwd() and github.context
  disk,             \* content of the local file at fullPath
  remote,           \* the hosting platform: its open pull requests
  log,              \* calls made so far in this run, in order
  productsInput, badgeTypesInput, readmePath, linkTo, prTitle, prBranch,
  style, badgeBaseUrl, fullPath,
  products, badgeTypes, badgesMarkdown,
  result,           \* UpdateResult of updateReadmeContent
  token,
  defaultBranch,
  refData,          \* refData.object.sha
  fileSha, retrySha,
  existingPRs,
  suspended         \* a second run of run() against the same remote, while it waits

scenarioVars == <<inputs, env, suspended>>
configVars == <<productsInput, badgeTypesInput, readmePath, linkTo, prTitle, prBranch,
                style, badgeBaseUrl, fullPath>>
badgeVars == <<products, badgeTypes, badgesMarkdown>>
remoteLocals == <<defaultBranch, refData, fileSha, retrySha, existingPRs>>

vars == <<pc, runs, inputs, env, disk, remote, log, productsInput, badgeTypesInput,
          readmePath, linkTo, prTitle, prBranch, style, badgeBaseUrl, fullPath,
          products, badgeTypes, badgesMarkdown, result, token, defaultBranch,
          refData, fileSha, retrySha, existingPRs, suspended>>

(***************************************************************************)
(* The inputs and environments the runs are checked on: one base scenario  *)
(* (the inputs of the repository's tests) and every scenario that differs  *)
(* from it in one place.                                                   *)
(***************************************************************************)
BaseInputs ==
  [n \in {"products", "badge-types", "readme-path", "style", "link-to", "pr-title",
          "pr-branch", "github-token", "badge-service-url"} |->
     CASE n = "products"     -> "python:3.12"
       [] n = "github-token" -> "fake-token"
       [] OTHER              -> ""]

InputOverrides ==
  {<<"products", "python:3.12\nnode:20">>, <<"products", "INVALID">>,
   <<"products", "python:3.12\nINVALID:1.0">>, <<"products", "">>,
   <<"badge-types", "health,eol">>,
   <<"readme-path", "docs/README.md">>, <<"readme-path", "../../etc/passwd">>,
   <<"readme-path", "/etc/passwd">>, <<"readme-path", "docs/../../outside.md">>,
   <<"readme-path", "docs/../README.md">>,
   <<"readme-path", "../workspace-evil/README.md">>,
   <<"style", "for-the-badge">>, <<"style", "invalid-style">>,
   <<"link-to", "none">>, <<"link-to", "releaserun">>, <<"link-to", "invalid-link">>,
   <<"pr-title", "Custom PR title">>,
   <<"pr-branch", "custom/branch">>, <<"pr-branch", "bad..branch">>,
   <<"pr-branch", "/lead">>, <<"pr-branch", "trail/">>, <<"pr-branch", "name.lock">>,
   <<"pr-branch", "has space">>, <<"pr-branch", "has~tilde">>,
   <<"pr-branch", "has^caret">>, <<"pr-branch", "has:colon">>,
   <<"pr-branch", "has?mark">>, <<"pr-branch", "has*star">>,
   <<"pr-branch", "has[bracket">>, <<"pr-branch", "has\\backslash">>,
   <<"pr-branch", "has\ttab">>, <<"pr-branch", "has\nnewline">>,
   <<"pr-branch", "v1.locked/a.b">>,
   <<"github-token", "">>,
   <<"badge-service-url", "https://img.releaserun.com/">>,
   <<"badge-service-url", "http://evil.com/phishing">>}

BaseEnv ==
  [GITHUB_TOKEN |-> "", GITHUB_WORKSPACE |-> "/workspace", cwd |-> "/workspace",
   owner |-> "test-owner", repo |-> "test-repo", contextDefaultBranch |-> "trunk"]

README_WITH_MARKERS ==
  "# Project\n" \o START_MARKER \o "\nold badges\n" \o END_MARKER \o "\nFooter"

README_NO_MARKERS == "# Project\nNo markers here"

README_UP_TO_DATE ==
  "# Project\n" \o START_MARKER
  \o "\n[![python 3.12 health](https://img.releaserun.com/badge/health/python/3.12.svg)](https://releaserun.com/badges/python/)\n"
  \o END_MARKER

PullRequest(number, head, base, title, body) ==
  [number |-> number,
   html_url |-> "https://github.com/test-owner/test-repo/pull/" \o ToString(number),
   head |-> head, base |-> base, title |-> title, body |-> body]

DefaultPrBranch == "releaserun/badges-update"

Scenario(in, e, d, prs) == [inputs |-> in, env |-> e, disk |-> d, prs |-> prs]

Scenarios ==
  {Scenario(BaseInputs, BaseEnv, README_WITH_MARKERS, <<>>)}
  \cup {Scenario([BaseInputs EXCEPT ![o[1]] = o[2]], BaseEnv, README_WITH_MARKERS, <<>>) :
          o \in InputOverrides}
  \cup {Scenario(BaseInputs, e, README_WITH_MARKERS, <<>>) :
          e \in {[BaseEnv EXCEPT !.contextDefaultBranch = undefined],
                 [BaseEnv EXCEPT !.GITHUB_WORKSPACE = ""]}}
  \cup {Scenario([BaseInputs EXCEPT !["github-token"] = ""],
                 [BaseEnv EXCEPT !.GITHUB_TOKEN = "env-token"], README_WITH_MARKERS, <<>>)}
  \cup {Scenario(BaseInputs, BaseEnv, d, <<>>) : d \in {README_NO_MARKERS, README_UP_TO_DATE}}
  \cup {Scenario(BaseInputs, BaseEnv, README_WITH_MARKERS, prs) :
          prs \in {<<PullRequest(99, DefaultPrBranch, "main", "old title", "old body")>>,
                   <<PullRequest(99, DefaultPrBranch, "develop", "old title", "old body"),
                     PullRequest(100, DefaultPrBranch, "main", "old title", "old body"),
                     PullRequest(101, "feature/other", "main", "a feature", "")>>}}

\* What the remote and the file system can throw: new Error('Request failed'),
\* or the string 'Request failed', which is not an Error.  message is
\* err.message of the Error and String(err) of the string.
Thrown == {[isError |-> TRUE, message |-> "Request failed"],
           [isError |-> FALSE, message |-> "Request failed"]}

\* err instanceof Error ? err.message : String(err)
errorMessage(err) == err.message

(***************************************************************************)
(* Entries of the call record.                                             *)
(***************************************************************************)
setFailed(msg) == [op |-> "setFailed", msg |-> msg]
warning(msg) == [op |-> "warning", msg |-> msg]
info(msg) == [op |-> "info", msg |-> msg]
debug(msg) == [op |-> "debug", msg |-> msg]
setOutput(name, value) == [op |-> "setOutput", name |-> name, value |-> value]
setSecret(value) == [op |-> "setSecret", value |-> value]
getOctokit(t) == [op |-> "getOctokit", token |-> t]
readFileSync(path, ok) == [op |-> "readFileSync", path |-> path, ok |-> ok]
writeFileSync(path, content, ok) ==
  [op |-> "writeFileSync", path |-> path, content |-> content, ok |-> ok]

mapWarning(ws) == [i \in 1..Len(ws) |-> warning(ws[i])]

\* Variant: the message is taken from whatever was thrown.
topLevelCatchAnyMessage(error) == setFailed(error.message)

\* The outermost catch of run(), lines 349-355.
topLevelCatch(error) ==
  IF error.isError THEN setFailed(error.message)
  ELSE setFailed("An unexpected error occurred")

getInput(name) == inputs[name]

Stop(entries) == /\ log' = log \o entries
                 /\ pc' = "done"

Goto(entries, next) == /\ log' = log \o entries
                       /\ pc' = next

FreshLocals ==
  /\ productsInput = "" /\ badgeTypesInput = "" /\ readmePath = "" /\ linkTo = ""
  /\ prTitle = "" /\ prBranch = "" /\ style = "" /\ badgeBaseUrl = undefined
  /\ fullPath = "" /\ products = <<>> /\ badgeTypes = <<>> /\ badgesMarkdown = ""
  /\ result = [updated |-> FALSE, content |-> "", markersFound |-> FALSE]
  /\ token = undefined /\ defaultBranch = "" /\ refData = "" /\ fileSha = undefined
  /\ retrySha = undefined /\ existingPRs = <<>>

Init ==
  /\ pc = "start"
  /\ runs = 1
  /\ \E sc \in Scenarios :
       /\ inputs = sc.inputs
       /\ env = sc.env
       /\ disk = sc.disk
       /\ remote = [prs |-> sc.prs]
  /\ log = <<>>
  /\ FreshLocals
  /\ suspended = [pc |-> "none"]

(***************************************************************************)
(* run(), lines 43-167: the synchronous part before the first remote call. *)
(***************************************************************************)
orDefault(value, default) == IF value # "" THEN value ELSE default

\* Lines 43-94: read and validate the inputs.
ValidateInputs ==
  /\ pc = "start"
  /\ LET productsIn   == getInput("products")
         badgeTypesIn == orDefault(getInput("badge-types"), "health")
         readmePathIn == orDefault(getInput("readme-path"), "README.md")
         linkToIn     == orDefault(getInput("link-to"), "badge-page")
         prTitleIn    == orDefault(getInput("pr-title"), "chore: update version health badges")
         prBranchIn   == orDefault(getInput("pr-branch"), DefaultPrBranch)
         styleIn      == orDefault(getInput("style"), "flat")
         badgeServiceBaseUrl == orDefault(getInput("badge-service-url"), undefined)
         badgeBaseUrlIn ==
           IF badgeServiceBaseUrl # ""
           THEN \* badgeServiceBaseUrl.replace(/\/$/, '') + '/badge'
                (IF endsWith(badgeServiceBaseUrl, "/")
                 THEN substring(badgeServiceBaseUrl, 0, Len(badgeServiceBaseUrl) - 1)
                 ELSE badgeServiceBaseUrl) \o "/badge"
           ELSE undefined
         fullPathIn    == pathResolve(env.cwd, readmePathIn)
         workspacePath == orDefault(env.GITHUB_WORKSPACE, env.cwd)
         failure ==
           \* core.getInput(name, { required: true }) throws when the input is
           \* empty.
           IF productsIn = ""
           THEN <<topLevelCatch([isError |-> TRUE,
                                 message |-> "Input required and not supplied: products"])>>
           ELSE IF invalidPrBranch(prBranchIn)
           THEN <<setFailed("Invalid pr-branch: \"" \o prBranchIn
                            \o "\". Branch name contains invalid characters.")>>
           ELSE IF ~includesElem(validStyles, styleIn)
           THEN <<setFailed("Invalid style: \"" \o styleIn \o "\". Must be one of: "
                            \o join(validStyles, ", "))>>
           ELSE IF ~includesElem(validLinkTo, linkToIn)
           THEN <<setFailed("Invalid link-to value: \"" \o linkToIn
                            \o "\". Must be badge-page, releaserun, or none.")>>
           ELSE IF badgeServiceBaseUrl # "" /\ ~isValidBadgeServiceUrl(badgeServiceBaseUrl)
           THEN <<setFailed("Invalid badge-service-url: \"" \o badgeServiceBaseUrl \o "\". "
                            \o "URL must use HTTPS and match *.releaserun.com (no IP addresses or localhost).")>>
           ELSE IF ~startsWith(fullPathIn, pathResolve(env.cwd, workspacePath))
           THEN <<setFailed("Invalid readme-path: must be within repository workspace")>>
           ELSE <<>>
     IN  IF failure # <<>>
         THEN /\ Stop(failure)
              /\ UNCHANGED configVars
         ELSE /\ Goto(<<>>, "parse")
              /\ productsInput' = productsIn
              /\ badgeTypesInput' = badgeTypesIn
              /\ readmePath' = readmePathIn
              /\ linkTo' = linkToIn
              /\ prTitle' = prTitleIn
              /\ prBranch' = prBranchIn
              /\ style' = styleIn
              /\ badgeBaseUrl' = badgeBaseUrlIn
              /\ fullPath' = fullPathIn
  /\ UNCHANGED <<runs, scenarioVars, disk, remote, badgeVars, result, token, remoteLocals>>

\* Variant: an empty product list is not noticed.
noProductsIgnored(ps) == FALSE

\* The condition of line 100.
noProducts(ps) == Len(ps) = 0

\* Variant: the markup ends with the number of the run that rendered it.
GenerateBadgesStamped ==
  /\ pc = "parse"
  /\ LET parsed   == parseProducts(productsInput)
         types    == parseBadgeTypes(badgeTypesInput)
         markdown == generateAllBadges(parsed.products, types, style, linkTo, badgeBaseUrl)
                       \o "\n" \o ToString(runs)
     IN  IF noProducts(parsed.products)
         THEN /\ Stop(mapWarning(parsed.warnings)
                      \o <<warning("No valid products found in input. Nothing to do.")>>)
              /\ UNCHANGED badgeVars
         ELSE /\ products' = parsed.products
              /\ badgeTypes' = types
              /\ badgesMarkdown' = markdown
              /\ Goto(mapWarning(parsed.warnings)
                      \o <<info("Parsed " \o ToString(Len(parsed.products)) \o " product(s)"),
                           info("Badge types: " \o join(types, ", ")),
                           info("Generated badges for " \o ToString(Len(parsed.products))
                                \o " product(s) x " \o ToString(Len(types)) \o " type(s)"),
                           debug("Generated badge markdown:\n" \o markdown),
                           setOutput("badges-markdown", markdown),
                           setOutput("badges-count",
                                     ToString(Len(parsed.products) * Len(types))),
                           setOutput("pr-branch", prBranch)>>,
                      "read")
  /\ UNCHANGED <<runs, scenarioVars, disk, remote, configVars, result, token, remoteLocals>>

\* Lines 96-119: parse the products and badge types, render the markup, set
\* the first three outputs.
GenerateBadges ==
  /\ pc = "parse"
  /\ LET parsed   == parseProducts(productsInput)
         types    == parseBadgeTypes(badgeTypesInput)
         markdown == generateAllBadges(parsed.products, types, style, linkTo, badgeBaseUrl)
     IN  IF noProducts(parsed.products)
         THEN /\ Stop(mapWarning(parsed.warnings)
                      \o <<warning("No valid products found in input. Nothing to do.")>>)
              /\ UNCHANGED badgeVars
         ELSE /\ products' = parsed.products
              /\ badgeTypes' = types
              /\ badgesMarkdown' = markdown
              /\ Goto(mapWarning(parsed.warnings)
                      \o <<info("Parsed " \o ToString(Len(parsed.products)) \o " product(s)"),
                           info("Badge types: " \o join(types, ", ")),
                           info("Generated badges for " \o ToString(Len(parsed.products))
                                \o " product(s) x " \o ToString(Len(types)) \o " type(s)"),
                           debug("Generated badge markdown:\n" \o markdown),
                           setOutput("badges-markdown", markdown),
                           setOutput("badges-count",
                                     ToString(Len(parsed.products) * Len(types))),
                           setOutput("pr-branch", prBranch)>>,
                      "read")
  /\ UNCHANGED <<runs, scenarioVars, disk, remote, configVars, result, token, remoteLocals>>

\* Lines 121-145: read the document and splice the markup into it.
ReadReadme ==
  /\ pc = "read"
  /\ \/ LET readmeContent == disk
            spliced       == updateReadmeContent(readmeContent, badgesMarkdown)
        IN  /\ result' = spliced
            /\ IF ~spliced.markersFound
               THEN Stop(<<readFileSync(fullPath, TRUE),
                           warning("No badge markers found in " \o readmePath \o ". "
                                   \o "Add <!-- releaserun-badges-start --> and <!-- releaserun-badges-end --> to your README.")>>)
               ELSE IF ~spliced.updated
               THEN Stop(<<readFileSync(fullPath, TRUE),
                           info("No changes detected. Badges are up to date.")>>)
               ELSE Goto(<<readFileSync(fullPath, TRUE)>>, "write")
     \/ \E err \in Thrown :
          /\ Stop(<<readFileSync(fullPath, FALSE),
                    setFailed("Failed to read README at " \o fullPath \o ": "
                              \o errorMessage(err))>>)
          /\ UNCHANGED result
  /\ UNCHANGED <<runs, scenarioVars, disk, remote, configVars, badgeVars, token, remoteLocals>>

\* Variant: a failed write is reported and the run goes on to the token.
WriteReadmeFailureGoesOn ==
  /\ pc = "write"
  /\ \/ /\ disk' = result.content
        /\ Goto(<<writeFileSync(fullPath, result.content, TRUE),
                  info("README updated with new badges.")>>, "token")
     \/ \E err \in Thrown :
          /\ Goto(<<writeFileSync(fullPath, result.content, FALSE),
                    warning("Failed to write README at " \o fullPath \o ": "
                            \o errorMessage(err))>>, "token")
          /\ UNCHANGED disk
  /\ UNCHANGED <<runs, scenarioVars, remote, configVars, badgeVars, result, token, remoteLocals>>

\* Lines 147-156: write the spliced document back.
WriteReadme ==
  /\ pc = "write"
  /\ \/ /\ disk' = result.content
        /\ Goto(<<writeFileSync(fullPath, result.content, TRUE),
                  info("README updated with new badges.")>>, "token")
     \/ \E err \in Thrown :
          /\ Stop(<<writeFileSync(fullPath, result.content, FALSE),
                    setFailed("Failed to write README at " \o fullPath \o ": "
                              \o errorMessage(err))>>)
          /\ UNCHANGED disk
  /\ UNCHANGED <<runs, scenarioVars, remote, configVars, badgeVars, result, token, remoteLocals>>

\* Variant: the client is created before the token is masked.
connectThenMask(t) == <<getOctokit(t), setSecret(t)>>

\* Lines 164-166: mask the token, then create the client.
maskThenConnect(t) == <<setSecret(t), getOctokit(t)>>

\* Lines 158-167: obtain and mask the token, create the client.
ObtainToken ==
  /\ pc = "token"
  /\ LET t == orDefault(getInput("github-token"), env.GITHUB_TOKEN)
     IN  IF t = ""
         THEN /\ Stop(<<setFailed("No GitHub token provided. Set github-token input or GITHUB_TOKEN env var.")>>)
              /\ UNCHANGED token
         ELSE /\ token' = t
              /\ Goto(maskThenConnect(t), "reposGet")
  /\ UNCHANGED <<runs, scenarioVars, disk, remote, configVars, badgeVars, result, remoteLocals>>

(***************************************************************************)
(* The remote calls of run(), lines 169-348.  Each action is one awaited   *)
(* call together with the code that handles its result up to the next      *)
(* call; the remote decides whether the call succeeds or throws.           *)
(***************************************************************************)
reposGet(owner, repo, ok) == [op |-> "repos.get", owner |-> owner, repo |-> repo, ok |-> ok]
\* threw is what the call rejected with; nothingThrown when it resolved.
nothingThrown == [isError |-> FALSE, message |-> ""]
gitGetRef(ref, ok, threw) ==
  [op |-> "git.getRef", ref |-> ref, ok |-> ok, threw |-> threw]
gitCreateRef(ref, sha, ok) == [op |-> "git.createRef", ref |-> ref, sha |-> sha, ok |-> ok]
gitUpdateRef(ref, sha, force, ok) ==
  [op |-> "git.updateRef", ref |-> ref, sha |-> sha, force |-> force, ok |-> ok]
gitDeleteRef(ref, ok) == [op |-> "git.deleteRef", ref |-> ref, ok |-> ok]
\* data is what the call resolved to; NoContent when it threw.
reposGetContent(path, ref, ok, data) ==
  [op |-> "repos.getContent", path |-> path, ref |-> ref, ok |-> ok, data |-> data]
NoContent == [isArray |-> FALSE, type |-> "none", sha |-> ""]
createOrUpdateFileContents(path, message, content, sha, branch, ok, threw) ==
  [op |-> "repos.createOrUpdateFileContents", path |-> path, message |-> message,
   content |-> content, sha |-> sha, branch |-> branch, ok |-> ok, threw |-> threw]
pullsList(head, state, ok) == [op |-> "pulls.list", head |-> head, state |-> state, ok |-> ok]
pullsUpdate(pull_number, title, body, ok) ==
  [op |-> "pulls.update", pull_number |-> pull_number, title |-> title, body |-> body,
   ok |-> ok]
pullsCreate(title, body, head, base, ok) ==
  [op |-> "pulls.create", title |-> title, body |-> body, head |-> head, base |-> base,
   ok |-> ok]

(***************************************************************************)
(* The repository on the hosting platform.  A remote with the field repo  *)
(* keeps the commits (each with its parent and the content of the document *)
(* as it was submitted), the name and the tip of the default branch, and   *)
(* the head of the working branch (0 while the branch does not exist); it  *)
(* answers the ref and content calls by that state.  A remote without the  *)
(* field leaves the answer to every call open.                             *)
(***************************************************************************)
repoKnown == "repo" \in DOMAIN remote

commitSha(k) == "commit-" \o ToString(k)

\* The revision marker of a file is the hash of its content: equal for equal
\* contents, different for different ones.
blobSha(content) == "blob-" \o content

\* Commit c is commit from or has it among its ancestors.
RECURSIVE descends(_, _, _)
descends(commits, c, from) ==
  IF c = 0 THEN FALSE
  ELSE c = from \/ descends(commits, commits[c].parent, from)

\* Variant: a file write is accepted whatever marker it carries.
remoteAcceptsAnyMarker(call) ==
  LET repo == remote.repo
  IN  CASE call.op = "git.getRef" -> call.ref = "heads/" \o repo.default
        [] call.op = "git.createRef" -> repo.head = 0
        [] call.op = "git.updateRef" ->
             /\ repo.head # 0
             /\ \/ call.force
                \/ \E k \in DOMAIN repo.commits :
                     commitSha(k) = call.sha /\ descends(repo.commits, k, repo.head)
        [] call.op = "git.deleteRef" -> repo.head # 0
        [] call.op = "repos.getContent" ->
             /\ repo.head # 0
             /\ call.ok =>
                  call.data = [isArray |-> FALSE, type |-> "file",
                               sha |-> blobSha(repo.commits[repo.head].content)]
        [] call.op = "repos.createOrUpdateFileContents" -> repo.head # 0
        [] OTHER -> TRUE

\* Whether the repository accepts a call: a ref is created when the branch
\* does not exist (line 197: a throw means it exists); updated without force
\* only to a commit that descends from its head (line 208); deleted when it
\* exists; the content is returned when the branch exists (line 250); a
\* file write is accepted when the branch exists and the marker is that of
\* the file on it (line 267).
remoteAccepts(call) ==
  LET repo == remote.repo
  IN  CASE call.op = "git.getRef" -> call.ref = "heads/" \o repo.default
        [] call.op = "git.createRef" -> repo.head = 0
        [] call.op = "git.updateRef" ->
             /\ repo.head # 0
             /\ \/ call.force
                \/ \E k \in DOMAIN repo.commits :
                     commitSha(k) = call.sha /\ descends(repo.commits, k, repo.head)
        [] call.op = "git.deleteRef" -> repo.head # 0
        [] call.op = "repos.getContent" ->
             /\ repo.head # 0
             /\ call.ok =>
                  call.data = [isArray |-> FALSE, type |-> "file",
                               sha |-> blobSha(repo.commits[repo.head].content)]
        [] call.op = "repos.createOrUpdateFileContents" ->
             /\ repo.head # 0
             /\ call.sha = blobSha(repo.commits[repo.head].content)
        [] OTHER -> TRUE

\* A call returned (ok) or threw as the repository decides.
remoteAnswers(call) == repoKnown => (call.ok <=> remoteAccepts(call))

\* The remote after a call.
remoteAfter(call) ==
  IF ~repoKnown \/ ~call.ok THEN remote
  ELSE CASE call.op \in {"git.createRef", "git.updateRef"} ->
              [remote EXCEPT !.repo.head =
                 CHOOSE k \in DOMAIN remote.repo.commits : commitSha(k) = call.sha]
         [] call.op = "git.deleteRef" -> [remote EXCEPT !.repo.head = 0]
         [] call.op = "repos.createOrUpdateFileContents" ->
              [remote EXCEPT
                 !.repo.commits = Append(@, [parent |-> remote.repo.head,
                                             content |-> call.content]),
                 !.repo.head = Len(remote.repo.commits) + 1]
         [] OTHER -> remote

\* The try/catch structure of lines 169-348: where run() continues after each
\* call, when it returned (ok) and when it threw (fail); "done" is a return
\* or the outermost catch.
flow ==
  [reposGet        |-> [ok |-> "getRef",      fail |-> "getRef"],
   getRef          |-> [ok |-> "createRef",   fail |-> "done"],
   createRef       |-> [ok |-> "getContent",  fail |-> "updateRef"],
   updateRef       |-> [ok |-> "getContent",  fail |-> "deleteRef"],
   deleteRef       |-> [ok |-> "recreateRef", fail |-> "done"],
   recreateRef     |-> [ok |-> "getContent",  fail |-> "done"],
   getContent      |-> [ok |-> "commit",      fail |-> "commit"],
   commit          |-> [ok |-> "pullsList",   fail |-> "retryGetContent"],
   retryGetContent |-> [ok |-> "retryCommit", fail |-> "retryCommit"],
   retryCommit     |-> [ok |-> "pullsList",   fail |-> "done"],
   pullsList       |-> [ok |-> "pullsWrite",  fail |-> "done"],
   pullsUpdate     |-> [ok |-> "done",        fail |-> "done"],
   pullsCreate     |-> [ok |-> "done",        fail |-> "done"]]

\* Variant: a failed create goes straight to the delete, without the update.
nextStepSkippingUpdate(step, ok) ==
  LET skipping == [flow EXCEPT !.createRef.fail = "deleteRef"]
  IN  IF ok THEN skipping[step].ok ELSE skipping[step].fail

\* Variant: a throw of the second write is swallowed and the run goes on.
nextStepAfterFailedRetry(step, ok) ==
  LET swallowing == [flow EXCEPT !.retryCommit.fail = "pullsList"]
  IN  IF ok THEN swallowing[step].ok ELSE swallowing[step].fail

\* Variant: a throw of the tip fetch is swallowed and the branch is created.
nextStepAfterFailedGetRef(step, ok) ==
  LET swallowing == [flow EXCEPT !.getRef.fail = "createRef"]
  IN  IF ok THEN swallowing[step].ok ELSE swallowing[step].fail

\* Variant: after a failed list the run still goes on to write the pull
\* request.
nextStepAfterFailedList(step, ok) ==
  LET continuing == [flow EXCEPT !.pullsList.fail = "pullsWrite"]
  IN  IF ok THEN continuing[step].ok ELSE continuing[step].fail

\* Variant: a throw of the first content fetch ends the run.
nextStepAbsentFileAborts(step, ok) ==
  LET aborting == [flow EXCEPT !.getContent.fail = "done"]
  IN  IF ok THEN aborting[step].ok ELSE aborting[step].fail

\* Variant: a failed second file write is tried again.
nextStepRetryingAgain(step, ok) ==
  LET looping == [flow EXCEPT !.retryCommit.fail = "retryGetContent"]
  IN  IF ok THEN looping[step].ok ELSE looping[step].fail

\* Variant: after the report of a failed re-create the run goes on.
nextStepAfterFailedRecreate(step, ok) ==
  LET continuing == [flow EXCEPT !.recreateRef.fail = "getContent"]
  IN  IF ok THEN continuing[step].ok ELSE continuing[step].fail

\* Variant: a refused update is swallowed and the branch is kept as it is.
nextStepKeepingBranch(step, ok) ==
  LET keeping == [flow EXCEPT !.updateRef.fail = "getContent"]
  IN  IF ok THEN keeping[step].ok ELSE keeping[step].fail

\* Variant: the deleted branch is not created again.
nextStepWithoutRecreate(step, ok) ==
  LET leaving == [flow EXCEPT !.deleteRef.ok = "getContent"]
  IN  IF ok THEN leaving[step].ok ELSE leaving[step].fail

nextStep(step, ok) == IF ok THEN flow[step].ok ELSE flow[step].fail

\* Variant: the fallback ignores the event context.
contextFallbackIgnored(contextDefaultBranch) == "main"

\* Lines 169-178: the default branch, with the fallback of line 177.
contextFallback(contextDefaultBranch) == orDefault(contextDefaultBranch, "main")

ReposGet ==
  /\ pc = "reposGet"
  /\ \/ \E branch \in (IF repoKnown THEN {remote.repo.default} ELSE {"main", "develop"}) :
          /\ defaultBranch' = branch
          /\ Goto(<<reposGet(env.owner, env.repo, TRUE)>>, nextStep("reposGet", TRUE))
     \/ \E err \in Thrown :
          /\ defaultBranch' = contextFallback(env.contextDefaultBranch)
          /\ Goto(<<reposGet(env.owner, env.repo, FALSE),
                    warning("Failed to query repository default branch: "
                            \o errorMessage(err) \o ". Falling back to context or 'main'.")>>,
                  nextStep("reposGet", FALSE))
  /\ UNCHANGED <<runs, scenarioVars, disk, remote, configVars, badgeVars, result, token,
                 refData, fileSha, retrySha, existingPRs>>

\* Lines 180-185: the tip of the default branch; a throw reaches line 349.
GetRef ==
  /\ pc = "getRef"
  /\ \/ \E sha \in (IF repoKnown THEN {commitSha(remote.repo.tip)} ELSE {"abc123"}) :
          /\ remoteAnswers(gitGetRef("heads/" \o defaultBranch, TRUE, nothingThrown))
          /\ refData' = sha
          /\ Goto(<<gitGetRef("heads/" \o defaultBranch, TRUE, nothingThrown)>>, nextStep("getRef", TRUE))
     \/ \E err \in Thrown :
          /\ remoteAnswers(gitGetRef("heads/" \o defaultBranch, FALSE, err))
          /\ Goto(<<gitGetRef("heads/" \o defaultBranch, FALSE, err), topLevelCatch(err)>>,
                  nextStep("getRef", FALSE))
          /\ UNCHANGED refData
  /\ UNCHANGED <<runs, scenarioVars, disk, remote, configVars, badgeVars, result, token,
                 defaultBranch, fileSha, retrySha, existingPRs>>

\* Lines 188-196.
CreateRef ==
  /\ pc = "createRef"
  /\ \/ /\ remoteAnswers(gitCreateRef("refs/heads/" \o prBranch, refData, TRUE))
        /\ remote' = remoteAfter(gitCreateRef("refs/heads/" \o prBranch, refData, TRUE))
        /\ Goto(<<gitCreateRef("refs/heads/" \o prBranch, refData, TRUE),
                  info("Created branch " \o prBranch)>>, nextStep("createRef", TRUE))
     \/ /\ remoteAnswers(gitCreateRef("refs/heads/" \o prBranch, refData, FALSE))
        /\ UNCHANGED remote
        /\ Goto(<<gitCreateRef("refs/heads/" \o prBranch, refData, FALSE)>>,
                nextStep("createRef", FALSE))
  /\ UNCHANGED <<runs, scenarioVars, disk, configVars, badgeVars, result, token,
                 remoteLocals>>

\* Variant: the update is forced.
updateRefForced == TRUE

\* The force argument of line 204.
updateRefForce == FALSE

\* Lines 197-212.
UpdateRef ==
  /\ pc = "updateRef"
  /\ \/ /\ remoteAnswers(gitUpdateRef("heads/" \o prBranch, refData, updateRefForce, TRUE))
        /\ remote' = remoteAfter(gitUpdateRef("heads/" \o prBranch, refData, updateRefForce, TRUE))
        /\ Goto(<<gitUpdateRef("heads/" \o prBranch, refData, updateRefForce, TRUE),
                  info("Updated branch " \o prBranch)>>, nextStep("updateRef", TRUE))
     \/ \E err \in Thrown :
          /\ remoteAnswers(gitUpdateRef("heads/" \o prBranch, refData, updateRefForce, FALSE))
          /\ UNCHANGED remote
          /\ Goto(<<gitUpdateRef("heads/" \o prBranch, refData, updateRefForce, FALSE),
                    warning("Branch " \o prBranch \o " has diverged from " \o defaultBranch
                            \o ": " \o errorMessage(err)),
                    warning("Deleting and recreating branch to avoid destroying manual commits.")>>,
                  nextStep("updateRef", FALSE))
  /\ UNCHANGED <<runs, scenarioVars, disk, configVars, badgeVars, result, token,
                 remoteLocals>>

\* Variant: the report names no branch and gives no instruction.
recreateFailureUnnamed(branch, recreateMsg) ==
  setFailed("Branch has diverged and could not be recreated: " \o recreateMsg)

\* Lines 226-232: the report when the delete or the re-create throws.
recreateFailure(branch, recreateMsg) ==
  setFailed("Branch " \o branch \o " has diverged and could not be recreated: "
            \o recreateMsg \o ". "
            \o "Please manually delete the branch and re-run the action.")

\* Lines 213-218, and 226-233 when the delete throws.
DeleteRef ==
  /\ pc = "deleteRef"
  /\ \/ /\ remoteAnswers(gitDeleteRef("heads/" \o prBranch, TRUE))
        /\ remote' = remoteAfter(gitDeleteRef("heads/" \o prBranch, TRUE))
        /\ Goto(<<gitDeleteRef("heads/" \o prBranch, TRUE)>>, nextStep("deleteRef", TRUE))
     \/ \E recreateErr \in Thrown :
          /\ remoteAnswers(gitDeleteRef("heads/" \o prBranch, FALSE))
          /\ UNCHANGED remote
          /\ Goto(<<gitDeleteRef("heads/" \o prBranch, FALSE),
                    recreateFailure(prBranch, errorMessage(recreateErr))>>,
                  nextStep("deleteRef", FALSE))
  /\ UNCHANGED <<runs, scenarioVars, disk, configVars, badgeVars, result, token,
                 remoteLocals>>

\* Lines 219-225, and 226-233 when the re-create throws.
RecreateRef ==
  /\ pc = "recreateRef"
  /\ \/ /\ remoteAnswers(gitCreateRef("refs/heads/" \o prBranch, refData, TRUE))
        /\ remote' = remoteAfter(gitCreateRef("refs/heads/" \o prBranch, refData, TRUE))
        /\ Goto(<<gitCreateRef("refs/heads/" \o prBranch, refData, TRUE),
                  info("Recreated branch " \o prBranch \o " from " \o defaultBranch)>>,
                nextStep("recreateRef", TRUE))
     \/ \E recreateErr \in Thrown :
          /\ remoteAnswers(gitCreateRef("refs/heads/" \o prBranch, refData, FALSE))
          /\ UNCHANGED remote
          /\ Goto(<<gitCreateRef("refs/heads/" \o prBranch, refData, FALSE),
                    recreateFailure(prBranch, errorMessage(recreateErr))>>,
                  nextStep("recreateRef", FALSE))
  /\ UNCHANGED <<runs, scenarioVars, disk, configVars, badgeVars, result, token,
                 remoteLocals>>

\* The shas a content response can carry: that of the file on the working
\* branch of a known repository, else the given ones.
heldShas(shas) ==
  IF ~repoKnown THEN shas
  ELSE IF remote.repo.head = 0 THEN {}
  ELSE {blobSha(remote.repo.commits[remote.repo.head].content)}

\* What repos.getContent can return: a file with its sha, a directory
\* listing (an array), or an entry that is not a file.
ContentResponses(shas) ==
  {[isArray |-> FALSE, type |-> "file", sha |-> sha] : sha \in shas}
  \cup {[isArray |-> TRUE, type |-> "", sha |-> ""],
        [isArray |-> FALSE, type |-> "symlink", sha |-> "link-sha-789"]}

\* Variant: the sha of any single entry is taken, file or not.
shaOfAnyEntry(fileData) == IF ~fileData.isArray THEN fileData.sha ELSE undefined

\* Lines 246-248 and 276-278: the sha taken from a response.
shaOf(fileData) == IF ~fileData.isArray /\ fileData.type = "file" THEN fileData.sha ELSE undefined

\* Lines 237-251.
GetContent ==
  /\ pc = "getContent"
  /\ \/ \E fileData \in ContentResponses(heldShas({"file-sha-123"})) :
          /\ remoteAnswers(reposGetContent(readmePath, prBranch, TRUE, fileData))
          /\ fileSha' = shaOf(fileData)
          /\ Goto(<<reposGetContent(readmePath, prBranch, TRUE, fileData)>>,
                  nextStep("getContent", TRUE))
     \/ /\ remoteAnswers(reposGetContent(readmePath, prBranch, FALSE, NoContent))
        /\ fileSha' = undefined
        /\ Goto(<<reposGetContent(readmePath, prBranch, FALSE, NoContent)>>,
                nextStep("getContent", FALSE))
  /\ UNCHANGED <<runs, scenarioVars, disk, remote, configVars, badgeVars, result, token,
                 defaultBranch, refData, retrySha, existingPRs>>

\* Lines 253-266, and line 293 when the call returns.
CommitFile ==
  /\ pc = "commit"
  /\ LET content == base64(result.content)
     IN  \/ /\ remoteAnswers(createOrUpdateFileContents(readmePath, prTitle, content,
                                                          fileSha, prBranch, TRUE,
                                                          nothingThrown))
            /\ remote' = remoteAfter(createOrUpdateFileContents(readmePath, prTitle, content,
                                                                fileSha, prBranch, TRUE,
                                                                nothingThrown))
            /\ Goto(<<createOrUpdateFileContents(readmePath, prTitle, content, fileSha,
                                                 prBranch, TRUE, nothingThrown),
                      info("Committed badge updates.")>>, nextStep("commit", TRUE))
         \/ \E firstErr \in Thrown :
              /\ remoteAnswers(createOrUpdateFileContents(readmePath, prTitle, content,
                                                          fileSha, prBranch, FALSE, firstErr))
              /\ UNCHANGED remote
              /\ Goto(<<createOrUpdateFileContents(readmePath, prTitle, content, fileSha,
                                                   prBranch, FALSE, firstErr),
                        warning("File content update failed, retrying once: "
                                \o errorMessage(firstErr))>>, nextStep("commit", FALSE))
  /\ UNCHANGED <<runs, scenarioVars, disk, configVars, badgeVars, result, token,
                 remoteLocals>>

\* Lines 267-281.
RetryGetContent ==
  /\ pc = "retryGetContent"
  \* The file's sha at the retry: the same, or another when the file changed.
  /\ \/ \E retryFileData \in ContentResponses(heldShas({"file-sha-123", "file-sha-456"})) :
          /\ remoteAnswers(reposGetContent(readmePath, prBranch, TRUE, retryFileData))
          /\ retrySha' = shaOf(retryFileData)
          /\ Goto(<<reposGetContent(readmePath, prBranch, TRUE, retryFileData)>>,
                  nextStep("retryGetContent", TRUE))
     \/ /\ remoteAnswers(reposGetContent(readmePath, prBranch, FALSE, NoContent))
        /\ retrySha' = undefined
        /\ Goto(<<reposGetContent(readmePath, prBranch, FALSE, NoContent)>>,
                nextStep("retryGetContent", FALSE))
  /\ UNCHANGED <<runs, scenarioVars, disk, remote, configVars, badgeVars, result, token,
                 defaultBranch, refData, fileSha, existingPRs>>

\* Variant: the retry resubmits the sha of the first fetch.
retryCommitStaleSha == fileSha

\* The sha argument of line 288.
retryCommitSha == retrySha

\* Lines 282-293; a throw is not caught here and reaches line 349.
RetryCommit ==
  /\ pc = "retryCommit"
  /\ LET content == base64(result.content)
     IN  \/ /\ remoteAnswers(createOrUpdateFileContents(readmePath, prTitle, content,
                                                          retryCommitSha, prBranch, TRUE,
                                                          nothingThrown))
            /\ remote' = remoteAfter(createOrUpdateFileContents(readmePath, prTitle, content,
                                                                retryCommitSha, prBranch,
                                                                TRUE, nothingThrown))
            /\ Goto(<<createOrUpdateFileContents(readmePath, prTitle, content,
                                                 retryCommitSha, prBranch, TRUE,
                                                 nothingThrown),
                      info("Committed badge updates.")>>, nextStep("retryCommit", TRUE))
         \/ \E err \in Thrown :
              /\ remoteAnswers(createOrUpdateFileContents(readmePath, prTitle, content,
                                                          retryCommitSha, prBranch, FALSE,
                                                          err))
              /\ UNCHANGED remote
              /\ Goto(<<createOrUpdateFileContents(readmePath, prTitle, content,
                                                   retryCommitSha, prBranch, FALSE, err),
                        topLevelCatch(err)>>, nextStep("retryCommit", FALSE))
  /\ UNCHANGED <<runs, scenarioVars, disk, configVars, badgeVars, result, token,
                 remoteLocals>>

(***************************************************************************)
(* Lines 295-348: the pull request.                                        *)
(***************************************************************************)
\* Line 296.
productList(ps) ==
  [i \in 1..Len(ps) |->
     "- " \o ps[i].product \o (IF ps[i].version # "" THEN ":" \o ps[i].version ELSE "")]

\* Lines 296-308.  The two backquotes around the path are written as
\* apostrophes: a TLA+ string cannot hold a backquote.
prBody ==
  "## Version Health Badges Update\n\nThis PR updates version health badges in '"
  \o readmePath \o "'.\n\n### Products tracked\n" \o join(productList(products), "\n")
  \o "\n\n### Badge types\n" \o join(badgeTypes, ", ")
  \o "\n\n---\nPowered by [ReleaseRun](https://releaserun.com) | [Badge Documentation](https://releaserun.com/badges/)"

\* Variant: the throw is reported as a warning only.
prFailureAsWarning(err) ==
  warning("Failed to create/update PR: " \o errorMessage(err))

\* Lines 344-347: the report of any throw inside the try of line 312.
prFailure(err) ==
  setFailed("Failed to create/update PR: " \o errorMessage(err)
            \o ". Badge changes were committed to " \o prBranch
            \o " but PR could not be created.")

\* The remote's answer to pulls.list({ head, state: 'open' }): its open pull
\* requests whose head is owner:branch, in the remote's order.
openPullsWithHead(prs, owner, head) ==
  SelectSeq(prs, LAMBDA pr : owner \o ":" \o pr.head = head)

RECURSIVE maxNumber(_)
maxNumber(prs) ==
  IF Len(prs) = 0 THEN 0
  ELSE LET m == maxNumber(Tail(prs)) IN IF prs[1].number > m THEN prs[1].number ELSE m

\* Variant: the head filter lacks the owner.
listHeadUnqualified(owner, branch) == branch

\* Line 316: the head filter of the list call.
listHead(owner, branch) == owner \o ":" \o branch

\* Lines 312-318.
PullsList ==
  /\ pc = "pullsList"
  /\ \/ /\ existingPRs' = openPullsWithHead(remote.prs, env.owner, listHead(env.owner, prBranch))
        /\ Goto(<<pullsList(listHead(env.owner, prBranch), "open", TRUE)>>,
                nextStep("pullsList", TRUE))
     \/ \E err \in Thrown :
          /\ Goto(<<pullsList(listHead(env.owner, prBranch), "open", FALSE), prFailure(err)>>,
                  nextStep("pullsList", FALSE))
          /\ UNCHANGED existingPRs
  /\ UNCHANGED <<runs, scenarioVars, disk, remote, configVars, badgeVars, result, token,
                 defaultBranch, refData, fileSha, retrySha>>

\* Variant: the listed pull requests are ignored.
hasExistingPRNever(prs) == FALSE

\* The condition of line 320.
hasExistingPR(prs) == Len(prs) > 0

\* Lines 320-330; the remote replaces the title and body of the pull request.
PullsUpdate ==
  /\ pc = "pullsWrite"
  /\ hasExistingPR(existingPRs)
  /\ \/ /\ remote' = [remote EXCEPT !.prs =
                        [i \in 1..Len(remote.prs) |->
                           IF remote.prs[i].number = existingPRs[1].number
                           THEN [remote.prs[i] EXCEPT !.title = prTitle, !.body = prBody]
                           ELSE remote.prs[i]]]
        /\ Goto(<<pullsUpdate(existingPRs[1].number, prTitle, prBody, TRUE),
                  info("Updated existing PR #" \o ToString(existingPRs[1].number)),
                  setOutput("pr-number", ToString(existingPRs[1].number)),
                  setOutput("pr-url", existingPRs[1].html_url)>>,
                nextStep("pullsUpdate", TRUE))
     \/ \E err \in Thrown :
          /\ Goto(<<pullsUpdate(existingPRs[1].number, prTitle, prBody, FALSE),
                    prFailure(err)>>, nextStep("pullsUpdate", FALSE))
          /\ UNCHANGED remote
  /\ UNCHANGED <<runs, scenarioVars, disk, configVars, badgeVars, result, token, remoteLocals>>

\* Lines 331-343; the remote opens a pull request with the next free number.
PullsCreate ==
  /\ pc = "pullsWrite"
  /\ ~hasExistingPR(existingPRs)
  /\ \/ LET pr == PullRequest(maxNumber(remote.prs) + 1, prBranch, defaultBranch,
                              prTitle, prBody)
        IN  /\ remote' = [remote EXCEPT !.prs = Append(remote.prs, pr)]
            /\ Goto(<<pullsCreate(prTitle, prBody, prBranch, defaultBranch, TRUE),
                      info("Created PR #" \o ToString(pr.number) \o ": " \o pr.html_url),
                      setOutput("pr-number", ToString(pr.number)),
                      setOutput("pr-url", pr.html_url)>>,
                    nextStep("pullsCreate", TRUE))
     \/ \E err \in Thrown :
          /\ Goto(<<pullsCreate(prTitle, prBody, prBranch, defaultBranch, FALSE),
                    prFailure(err)>>, nextStep("pullsCreate", FALSE))
          /\ UNCHANGED remote
  /\ UNCHANGED <<runs, scenarioVars, disk, configVars, badgeVars, result, token, remoteLocals>>

Next ==
  \/ ValidateInputs
  \/ GenerateBadges
  \/ ReadReadme
  \/ WriteReadme
  \/ ObtainToken
  \/ ReposGet
  \/ GetRef
  \/ CreateRef
  \/ UpdateRef
  \/ DeleteRef
  \/ RecreateRef
  \/ GetContent
  \/ CommitFile
  \/ RetryGetContent
  \/ RetryCommit
  \/ PullsList
  \/ PullsUpdate
  \/ PullsCreate

Spec == Init /\ [][Next]_vars

(***************************************************************************)
(* Runs one after another against the same remote.  The workflow starts    *)
(* run() again with the same inputs on a fresh checkout; nothing of a run  *)
(* survives it but the remote's state.                                     *)
(***************************************************************************)
MaxRuns == 2

\* Remotes on which at most one open pull request has the working branch
\* as its head.
RunScenarios ==
  {Scenario(BaseInputs, BaseEnv, README_WITH_MARKERS, prs) :
     prs \in {<<>>,
              <<PullRequest(101, "feature/other", "main", "a feature", "")>>,
              <<PullRequest(99, DefaultPrBranch, "main", "old title", "old body")>>}}

InitRuns ==
  /\ pc = "start"
  /\ runs = 1
  /\ \E sc \in RunScenarios :
       /\ inputs = sc.inputs
       /\ env = sc.env
       /\ disk = sc.disk
       /\ remote = [prs |-> sc.prs]
  /\ log = <<>>
  /\ FreshLocals
  /\ suspended = [pc |-> "none"]

\* Line 358: the next workflow run calls run() again.
NewRun ==
  /\ pc = "done"
  /\ runs < MaxRuns
  /\ runs' = runs + 1
  /\ pc' = "start"
  /\ log' = <<>>
  \* What a fresh checkout can hold at fullPath.
  /\ disk' \in {README_WITH_MARKERS, README_UP_TO_DATE, README_NO_MARKERS}
  /\ productsInput' = "" /\ badgeTypesInput' = "" /\ readmePath' = "" /\ linkTo' = ""
  /\ prTitle' = "" /\ prBranch' = "" /\ style' = "" /\ badgeBaseUrl' = undefined
  /\ fullPath' = "" /\ products' = <<>> /\ badgeTypes' = <<>> /\ badgesMarkdown' = ""
  /\ result' = [updated |-> FALSE, content |-> "", markersFound |-> FALSE]
  /\ token' = undefined /\ defaultBranch' = "" /\ refData' = "" /\ fileSha' = undefined
  /\ retrySha' = undefined /\ existingPRs' = <<>>
  /\ UNCHANGED <<scenarioVars, remote>>

NextRuns == Next \/ NewRun

SpecRuns == InitRuns /\ [][NextRuns]_vars

(***************************************************************************)
(* Two runs at the same time against one repository: two workflow runs,    *)
(* with the same inputs or not, each on its own checkout of the default    *)
(* branch.                                                                 *)
(* The variables hold the run that is executing; the other run waits in    *)
(* suspended.  A run can be overtaken wherever it awaits the remote.       *)
(***************************************************************************)
\* The repositories the two runs start on.  Commit 2 is the tip of the
\* default branch; commit 3 is the commit of an earlier run with the same
\* inputs, on the working branch only.  The working branch does not exist,
\* or is at commit 1, 2 or 3; at 3 its pull request is open.
PairRemotes ==
  LET checkedOut == base64(README_WITH_MARKERS)
      earlier == base64(updateReadmeContent(
                          README_WITH_MARKERS,
                          generateAllBadges(<<[product |-> "python", version |-> "3.12"]>>,
                                            <<"health">>, "flat", "badge-page",
                                            undefined)).content)
      commits == <<[parent |-> 0, content |-> checkedOut],
                   [parent |-> 1, content |-> checkedOut],
                   [parent |-> 2, content |-> earlier]>>
  IN  {[prs |-> IF head = 3
                THEN <<PullRequest(99, DefaultPrBranch, "main", "old title", "old body")>>
                ELSE <<>>,
        repo |-> [commits |-> commits, default |-> "main", tip |-> 2, head |-> head]] :
         head \in 0..3}

\* The inputs and the locals of the executing run.
Locals ==
  [pc |-> pc, runs |-> runs, inputs |-> inputs, disk |-> disk, log |-> log,
   productsInput |-> productsInput,
   badgeTypesInput |-> badgeTypesInput, readmePath |-> readmePath, linkTo |-> linkTo,
   prTitle |-> prTitle, prBranch |-> prBranch, style |-> style,
   badgeBaseUrl |-> badgeBaseUrl, fullPath |-> fullPath, products |-> products,
   badgeTypes |-> badgeTypes, badgesMarkdown |-> badgesMarkdown, result |-> result,
   token |-> token, defaultBranch |-> defaultBranch, refData |-> refData,
   fileSha |-> fileSha, retrySha |-> retrySha, existingPRs |-> existingPRs]

\* Two runs start; the inputs of each are those of the tests, or have a
\* second product.
InitPair ==
  /\ pc = "start"
  /\ runs = 1
  /\ inputs \in {BaseInputs, [BaseInputs EXCEPT !["products"] = "python:3.12\nnode:20"]}
  /\ env = BaseEnv
  /\ disk = README_WITH_MARKERS
  /\ remote \in PairRemotes
  /\ log = <<>>
  /\ FreshLocals
  /\ \E second \in {BaseInputs, [BaseInputs EXCEPT !["products"] = "python:3.12\nnode:20"]} :
       suspended = [Locals EXCEPT !.runs = 2, !.inputs = second]

\* The executing run awaits the remote, or has ended, and the other run
\* goes on from where it waited.
Switch ==
  /\ pc \notin {"start", "parse", "read", "write", "token"}
  /\ suspended.pc \notin {"none", "done"}
  /\ suspended' = Locals
  /\ pc' = suspended.pc
  /\ runs' = suspended.runs
  /\ inputs' = suspended.inputs
  /\ disk' = suspended.disk
  /\ log' = suspended.log
  /\ productsInput' = suspended.productsInput
  /\ badgeTypesInput' = suspended.badgeTypesInput
  /\ readmePath' = suspended.readmePath
  /\ linkTo' = suspended.linkTo
  /\ prTitle' = suspended.prTitle
  /\ prBranch' = suspended.prBranch
  /\ style' = suspended.style
  /\ badgeBaseUrl' = suspended.badgeBaseUrl
  /\ fullPath' = suspended.fullPath
  /\ products' = suspended.products
  /\ badgeTypes' = suspended.badgeTypes
  /\ badgesMarkdown' = suspended.badgesMarkdown
  /\ result' = suspended.result
  /\ token' = suspended.token
  /\ defaultBranch' = suspended.defaultBranch
  /\ refData' = suspended.refData
  /\ fileSha' = suspended.fileSha
  /\ retrySha' = suspended.retrySha
  /\ existingPRs' = suspended.existingPRs
  /\ UNCHANGED <<env, remote>>

NextPair == Next \/ Switch

SpecPair == InitPair /\ [][NextPair]_vars

(***************************************************************************)
(* updateReadmeContent on its own: a document and a markup are spliced,    *)
(* and the result is spliced again with the same markup, as the next run   *)
(* does on the document this run produced.                                 *)
(***************************************************************************)
MaxPieces == 5

\* Markups generateAllBadges produces, and the markups of the unit tests.
\* The last one has a service URL that isValidBadgeServiceUrl accepts and
\* whose path holds the text of the end marker.
Markups ==
  {"", "new",
   "[![a](http://a.svg)](http://a)\n[![b](http://b.svg)](http://b)",
   generateAllBadges(<<[product |-> "python", version |-> "3.12"]>>, <<"health">>,
                     "flat", "badge-page", undefined),
   generateAllBadges(<<[product |-> "python", version |-> "3.12"]>>, <<"health">>,
                     "flat", "badge-page", "https://img.releaserun.com/" \o END_MARKER \o "/badge")}

\* The documents are those made of at most MaxPieces pieces.
InitSplice ==
  /\ pc = "splice"
  /\ runs = 1
  /\ inputs = BaseInputs
  /\ env = BaseEnv
  /\ disk \in {concat(ps, 1, Len(ps)) :
                 ps \in UNION {[1..n -> {START_MARKER, END_MARKER, "\n", "old badges"}] :
                                 n \in 0..MaxPieces}}
  /\ badgesMarkdown \in Markups
  /\ remote = [prs |-> <<>>]
  /\ suspended = [pc |-> "none"]
  /\ log = <<>>
  /\ productsInput = "" /\ badgeTypesInput = "" /\ readmePath = "" /\ linkTo = ""
  /\ prTitle = "" /\ prBranch = "" /\ style = "" /\ badgeBaseUrl = undefined
  /\ fullPath = "" /\ products = <<>> /\ badgeTypes = <<>>
  /\ result = [updated |-> FALSE, content |-> "", markersFound |-> FALSE]
  /\ token = undefined /\ defaultBranch = "" /\ refData = "" /\ fileSha = undefined
  /\ retrySha = undefined /\ existingPRs = <<>>

\* updateReadmeContent(readme, badges) on the document.
Splice ==
  /\ pc = "splice"
  /\ result' = updateReadmeContent(disk, badgesMarkdown)
  /\ pc' = "spliced"
  /\ UNCHANGED <<runs, scenarioVars, disk, remote, log, configVars, badgeVars, token,
                 remoteLocals>>

\* The spliced content becomes the document and is spliced again.
Resplice ==
  /\ pc = "spliced"
  /\ result.markersFound
  /\ disk' = result.content
  /\ result' = updateReadmeContent(result.content, badgesMarkdown)
  /\ pc' = "respliced"
  /\ UNCHANGED <<runs, scenarioVars, remote, log, configVars, badgeVars, token,
                 remoteLocals>>

\* The spliced content is spliced with the markup of another run; disk
\* keeps the document the first splice started from.
SpliceOther ==
  /\ pc = "spliced"
  /\ result.markersFound
  /\ \E other \in Markups :
       /\ badgesMarkdown' = other
       /\ result' = updateReadmeContent(result.content, other)
  /\ pc' = "replaced"
  /\ UNCHANGED <<runs, scenarioVars, disk, remote, log, configVars, products, badgeTypes,
                 token, remoteLocals>>

NextSplice == Splice \/ Resplice \/ SpliceOther

SpecSplice == InitSplice /\ [][NextSplice]_vars

(***************************************************************************)
(* The synchronous head of run() on its own, lines 43-119: the inputs are  *)
(* validated, parsed and rendered, for inputs drawn from bounded sets.     *)
(* core.getInput trims the value it returns, so every input is a string    *)
(* that trim leaves alone.                                                 *)
(***************************************************************************)
MaxInputPieces == 4

\* The strings made of at most n of the pieces.
Strings(pieces, n) ==
  {concat(ps, 1, Len(ps)) : ps \in UNION {[1..k -> pieces] : k \in 0..n}}

\* n valid lines product0:1.0, product1:1.0, ...
ProductLines(n) == join([i \in 1..n |-> "product" \o ToString(i - 1) \o ":1.0"], "\n")

\* The inputs: those of the tests with one input replaced, and the
\* combinations of a few values of the inputs that shape the markup. The
\* products are short texts of names, versions, colons and line breaks, and
\* texts of about MAX_PRODUCTS lines; the service URLs are a scheme, a host
\* and what follows.
InputSpace ==
  {[BaseInputs EXCEPT !["products"] = v] :
     v \in {w \in Strings({"py", "B", "3", ".", ":", " ", "\n", "latest"}, MaxInputPieces) :
              trim(w) = w}
           \cup {ProductLines(MAX_PRODUCTS), ProductLines(MAX_PRODUCTS + 1),
                 "INVALID\n" \o ProductLines(MAX_PRODUCTS + 1),
                 ProductLines(MAX_PRODUCTS - 1) \o "\npy:.\nB\nnode"}}
  \cup {[BaseInputs EXCEPT !["badge-types"] = v] :
          v \in {w \in Strings({"health", "eol", "CVE", "bogus", ",", " "}, MaxInputPieces) :
                   trim(w) = w}}
  \cup {[BaseInputs EXCEPT !["badge-service-url"] = v] :
          v \in {scheme \o host \o rest :
                scheme \in {"https://", "http://", "HTTPS://", "ftp://", "https:", ""},
                host \in {"releaserun.com", "img.releaserun.com", "staging.releaserun.com",
                          "sub.releaserun.com", "RELEASERUN.COM", "evil.com", "releaserun.com.evil.com",
                          "evilreleaserun.com", "192.168.1.1", "127.0.0.1", "localhost", "[::1]",
                          "1.2.3.4.releaserun.com", "releaserun.com.", "user@releaserun.com",
                          "releaserun.com@evil.com", "not-a-url"},
                rest \in {"", "/", "/badge", ":443", ":8443/base/", ":99999", "?q=.releaserun.com",
                          "#releaserun.com"}}}
  \cup {[BaseInputs EXCEPT !["products"] = p, !["badge-types"] = t, !["style"] = st,
                            !["link-to"] = l, !["badge-service-url"] = u] :
          p \in {"python:3.12", "python:3.12\nnode", "node\nrust:latest\ngo:1.22"},
          t \in {"", "health,eol", "cve,cloud,freshness", "eol,eol"},
          st \in {"", "flat", "flat-square", "plastic", "for-the-badge"},
          l \in {"", "releaserun", "none"},
          u \in {"", "https://img.releaserun.com/", "https://releaserun.com"}}

InitInputs ==
  /\ pc = "start"
  /\ runs = 1
  /\ inputs \in InputSpace
  /\ env = BaseEnv
  /\ disk = README_WITH_MARKERS
  /\ remote = [prs |-> <<>>]
  /\ log = <<>>
  /\ FreshLocals
  /\ suspended = [pc |-> "none"]

NextInputs == ValidateInputs \/ GenerateBadges

SpecInputs == InitInputs /\ [][NextInputs]_vars

(***************************************************************************)
(* Reading the call record.                                                *)
(***************************************************************************)
Idx(op) == {i \in DOMAIN log : log[i].op = op}
Failed(op) == {i \in Idx(op) : ~log[i].ok}
Succeeded(op) == {i \in Idx(op) : log[i].ok}
First(S) == CHOOSE i \in S : \A j \in S : i <= j
Last(S) == CHOOSE i \in S : \A j \in S : j <= i

CreateRefs == Idx("git.createRef")
UpdateRefs == Idx("git.updateRef")
DeleteRefs == Idx("git.deleteRef")
GetContents == Idx("repos.getContent")
FileWrites == Idx("repos.createOrUpdateFileContents")
PullCalls == Idx("pulls.list") \cup Idx("pulls.update") \cup Idx("pulls.create")
FailedPullCalls ==
  Failed("pulls.list") \cup Failed("pulls.update") \cup Failed("pulls.create")
OutputSet(name) == \E i \in Idx("setOutput") : log[i].name = name

\* The head of the working branch as the remote lists it.
WorkingHead == env.owner \o ":" \o orDefault(inputs["pr-branch"], DefaultPrBranch)
OpenOnWorkingBranch == openPullsWithHead(remote.prs, env.owner, WorkingHead)

(***************************************************************************)
(* The working branch, lines 187-235.                                      *)
(***************************************************************************)
\* C1: no update-ref call is ever issued with force = true, and the only
\* calls that change a ref are create-ref, update-ref and delete-ref on the
\* working branch.
NoForcedUpdateRef ==
  \A i \in DOMAIN log :
    /\ log[i].op = "git.updateRef" =>
         log[i].force = FALSE /\ log[i].ref = "heads/" \o prBranch
    /\ log[i].op = "git.createRef" => log[i].ref = "refs/heads/" \o prBranch
    /\ log[i].op = "git.deleteRef" => log[i].ref = "heads/" \o prBranch
    /\ startsWith(log[i].op, "git.") =>
         log[i].op \in {"git.getRef", "git.createRef", "git.updateRef", "git.deleteRef"}

\* The diverged branch: the update was refused, the branch deleted and
\* created again.
DivergedBranchRecreated ==
  /\ Failed("git.updateRef") # {}
  /\ Succeeded("git.deleteRef") # {}
  /\ Succeeded("git.createRef") # {}

BranchStepOver ==
  \/ pc \in {"getContent", "commit", "retryGetContent", "retryCommit", "pullsList",
             "pullsWrite"}
  \/ pc = "done" /\ CreateRefs # {}

\* C2: the working-branch step is a strict fallback chain.  create-ref at
\* the default branch's tip comes first; update-ref (force false) is issued
\* if and only if that create-ref failed; delete-ref if and only if that
\* update-ref failed; a second create-ref if and only if delete-ref
\* succeeded.  When the first create-ref succeeds it is the only create-ref
\* and there is neither an update-ref nor a delete-ref.
StrictFallbackChain ==
  /\ Cardinality(CreateRefs) <= 2
  /\ Cardinality(UpdateRefs) <= 1
  /\ Cardinality(DeleteRefs) <= 1
  /\ CreateRefs # {} =>
       /\ log[First(CreateRefs)].sha = refData
       /\ Idx("git.getRef") # {} /\ First(Idx("git.getRef")) < First(CreateRefs)
       /\ log[First(CreateRefs)].ok =>
            Cardinality(CreateRefs) = 1 /\ UpdateRefs = {} /\ DeleteRefs = {}
  /\ UpdateRefs # {} =>
       /\ CreateRefs # {} /\ ~log[First(CreateRefs)].ok
       /\ First(UpdateRefs) = First(CreateRefs) + 1
       /\ log[First(UpdateRefs)].force = FALSE
       /\ log[First(UpdateRefs)].sha = refData
  /\ DeleteRefs # {} =>
       /\ UpdateRefs # {} /\ ~log[First(UpdateRefs)].ok
       /\ First(UpdateRefs) < First(DeleteRefs)
  /\ Cardinality(CreateRefs) = 2 =>
       /\ DeleteRefs # {} /\ log[First(DeleteRefs)].ok
       /\ Last(CreateRefs) = First(DeleteRefs) + 1
       /\ log[Last(CreateRefs)].sha = refData
  /\ BranchStepOver =>
       /\ ~log[First(CreateRefs)].ok => UpdateRefs # {}
       /\ (UpdateRefs # {} /\ ~log[First(UpdateRefs)].ok) => DeleteRefs # {}
       /\ (DeleteRefs # {} /\ log[First(DeleteRefs)].ok) => Cardinality(CreateRefs) = 2

\* The whole chain was walked and the second create-ref succeeded.
WholeChainWalked ==
  /\ Cardinality(CreateRefs) = 2
  /\ log[Last(CreateRefs)].ok
  /\ pc = "getContent"

RecreateFailed ==
  \/ Failed("git.deleteRef") # {}
  \/ Cardinality(CreateRefs) = 2 /\ ~log[Last(CreateRefs)].ok

\* C3: when create-ref and update-ref failed and then delete-ref or the
\* second create-ref fails, the run ends with one failure report, which
\* names the working branch and tells to delete it manually, and no
\* get-content, file-write or pull-request call follows.
RecreateFailureAborts ==
  RecreateFailed =>
    /\ ~log[First(CreateRefs)].ok
    /\ ~log[First(UpdateRefs)].ok
    /\ pc = "done"
    /\ Cardinality(Idx("setFailed")) = 1
    /\ log[Len(log)].op = "setFailed"
    /\ includes(log[Len(log)].msg, "Branch " \o prBranch \o " ")
    /\ includes(log[Len(log)].msg, "manually delete the branch")
    /\ GetContents = {}
    /\ FileWrites = {}
    /\ PullCalls = {}

\* The delete succeeded and the second create-ref failed.
SecondCreateRefFailed ==
  /\ Succeeded("git.deleteRef") # {}
  /\ Cardinality(Failed("git.createRef")) = 2

(***************************************************************************)
(* The commit, lines 237-293.                                              *)
(***************************************************************************)
\* The sha a get-content call yields for the write that follows it.
MarkerOf(i) ==
  IF log[i].ok /\ ~log[i].data.isArray /\ log[i].data.type = "file"
  THEN log[i].data.sha ELSE undefined

RefetchesBetween(w1, w2) == {k \in GetContents : w1 < k /\ k < w2}

CommitStepOver == pc \in {"pullsList", "pullsWrite", "done"}

\* C4: when the first file write fails there is exactly one retry: the
\* revision marker is fetched again and the same write is resubmitted with
\* the marker of that fetch, or with none when the fetch failed or returned
\* something that is not a file.  No run issues more than two file writes.
SingleRetryWithRefetchedMarker ==
  /\ Cardinality(FileWrites) <= 2
  /\ Cardinality(FileWrites) = 2 =>
       LET w1 == First(FileWrites)
           w2 == Last(FileWrites)
       IN  /\ ~log[w1].ok
           /\ Cardinality(RefetchesBetween(w1, w2)) = 1
           /\ \A k \in RefetchesBetween(w1, w2) :
                /\ log[w2].sha = MarkerOf(k)
                /\ log[k].path = log[w2].path
                /\ log[k].ref = log[w2].branch
           /\ [log[w2] EXCEPT !.sha = "", !.ok = TRUE, !.threw = nothingThrown]
                = [log[w1] EXCEPT !.sha = "", !.ok = TRUE, !.threw = nothingThrown]
  /\ (FileWrites # {} /\ log[First(FileWrites)].ok) =>
       /\ Cardinality(FileWrites) = 1
       /\ \A k \in GetContents : k < First(FileWrites)
  /\ (FileWrites # {} /\ ~log[First(FileWrites)].ok /\ CommitStepOver) =>
       Cardinality(FileWrites) = 2

\* The file changed between the two fetches and the retry carries the new
\* marker.
RetriedWithNewMarker ==
  /\ Cardinality(FileWrites) = 2
  /\ log[First(FileWrites)].sha = "file-sha-123"
  /\ log[Last(FileWrites)].sha = "file-sha-456"

BothWritesFailed == Cardinality(Failed("repos.createOrUpdateFileContents")) = 2

\* C5: when the retry fails too, its error is not handled at the commit
\* step: the outermost handler reports it, the run ends in failure, no
\* pull-request call is made, and the outputs badges-markdown, badges-count
\* and pr-branch set earlier stay set.
SecondWriteFailureIsFatal ==
  BothWritesFailed =>
    /\ pc = "done"
    /\ Last(FileWrites) = Len(log) - 1
    /\ log[Len(log)] \in {topLevelCatch(err) : err \in Thrown}
    /\ Cardinality(Idx("setFailed")) = 1
    /\ PullCalls = {}
    /\ \E i \in Idx("setOutput") :
         log[i] = setOutput("badges-markdown", badgesMarkdown) /\ i < First(FileWrites)
    /\ \E i \in Idx("setOutput") :
         log[i] = setOutput("badges-count", ToString(Len(products) * Len(badgeTypes)))
    /\ \E i \in Idx("setOutput") : log[i] = setOutput("pr-branch", prBranch)

\* Both writes failed, the second with a value that is not an Error.
BothWritesFailedReported ==
  /\ BothWritesFailed
  /\ log[Len(log)] = setFailed("An unexpected error occurred")

(***************************************************************************)
(* The pull request, lines 295-348.                                        *)
(***************************************************************************)
\* C6: one of update and create is called, never both.  With a non-empty
\* list of open pull requests on the working branch, update is called on
\* the first listed; with an empty list, create is called with the working
\* branch as head and the resolved default branch as base.
UpdateXorCreate ==
  /\ Cardinality(Idx("pulls.update")) + Cardinality(Idx("pulls.create")) <= 1
  /\ pc = "pullsWrite" => existingPRs = OpenOnWorkingBranch
  /\ \A i \in Idx("pulls.update") :
       /\ Succeeded("pulls.list") # {} /\ Last(Succeeded("pulls.list")) < i
       /\ Len(existingPRs) > 0
       /\ log[i].pull_number = existingPRs[1].number
       /\ log[i].pull_number = OpenOnWorkingBranch[1].number
  /\ \A i \in Idx("pulls.create") :
       /\ Succeeded("pulls.list") # {} /\ Last(Succeeded("pulls.list")) < i
       /\ Len(existingPRs) = 0
       /\ log[i].head = prBranch
       /\ log[i].base = defaultBranch
       /\ Len(OpenOnWorkingBranch) = (IF log[i].ok THEN 1 ELSE 0)
  /\ (pc = "done" /\ Succeeded("pulls.list") # {}) =>
       Cardinality(Idx("pulls.update")) + Cardinality(Idx("pulls.create")) = 1

\* Two pull requests were listed and the first was updated.
FirstOfTwoUpdated ==
  /\ Len(existingPRs) = 2
  /\ \E i \in Succeeded("pulls.update") : log[i].pull_number = 99
  /\ OutputSet("pr-number")

\* C7: over runs one after another against the same remote, the open pull
\* requests whose head is the working branch never number more than one.
AtMostOnePullRequest == Len(OpenOnWorkingBranch) <= 1

\* The first run opened pull request 1 and the second run updated it.
SecondRunUpdated ==
  /\ runs = 2
  /\ pc = "done"
  /\ \E i \in Succeeded("pulls.update") : log[i].pull_number = 1
  /\ Len(OpenOnWorkingBranch) = 1

ReadmeRead == Succeeded("readFileSync") # {}

\* The splice found the markers and reports changed = false.
SpliceUnchanged == ReadmeRead /\ result.markersFound /\ ~result.updated

\* The document on disk, not yet written by this run, holds the current
\* markup between its markers.
DocumentCurrent ==
  /\ ReadmeRead
  /\ Idx("writeFileSync") = {}
  /\ includes(disk, START_MARKER \o "\n" \o badgesMarkdown \o "\n" \o END_MARKER)

\* C9 as stated: on a document that already holds the current markup the
\* splice reports changed = false and the run still invokes the commit step
\* and still calls the pull-request update (taken here in its widest
\* sense: an update, or a create when no pull request is open).
UpToDateStillCommits ==
  (pc = "done" /\ SpliceUnchanged /\ Idx("setFailed") = {}) =>
    /\ FileWrites # {}
    /\ Idx("pulls.update") \cup Idx("pulls.create") # {}

\* C9, amended: on a document that already holds the current markup the
\* splice reports changed = false, and the run then ends at once with the
\* notice 'No changes detected. Badges are up to date.': the file is not
\* written, no client is created, and no commit and no pull-request call is
\* made.
UpToDateExitsEarly ==
  /\ DocumentCurrent => SpliceUnchanged
  /\ SpliceUnchanged =>
       /\ pc = "done"
       /\ log[Len(log)] = info("No changes detected. Badges are up to date.")
       /\ Idx("writeFileSync") = {}
       /\ Idx("getOctokit") = {}
       /\ Idx("repos.get") = {}
       /\ GetContents = {}
       /\ FileWrites = {}
       /\ PullCalls = {}
       /\ Idx("setFailed") = {}
       /\ OutputSet("badges-markdown")
       /\ disk = result.content

\* The run ended on the up-to-date document.
UpToDateRunEnded ==
  /\ disk = README_UP_TO_DATE
  /\ DocumentCurrent
  /\ SpliceUnchanged
  /\ pc = "done"

(***************************************************************************)
(* The default branch, lines 169-185.                                      *)
(***************************************************************************)
\* C10: when the repository query fails the run goes on: it warns, takes
\* the default branch from the event's repository, or 'main' when the event
\* has none, and next fetches the ref heads/<that branch>.
DefaultBranchFallback ==
  \A i \in Failed("repos.get") :
    LET fallback == IF env.contextDefaultBranch # undefined
                    THEN env.contextDefaultBranch ELSE "main"
    IN  /\ Len(log) > i
        /\ log[i + 1].op = "warning"
        /\ {j \in Idx("setFailed") : j <= i + 1} = {}
        /\ defaultBranch = fallback
        /\ Len(log) = i + 1 => pc = "getRef"
        /\ Len(log) > i + 1 =>
             /\ log[i + 2].op = "git.getRef"
             /\ log[i + 2].ref = "heads/" \o fallback

\* The query failed, the event named no default branch, and heads/main was
\* fetched.
FellBackToMain ==
  /\ Failed("repos.get") # {}
  /\ env.contextDefaultBranch = undefined
  /\ \E i \in Succeeded("git.getRef") : log[i].ref = "heads/main"
  /\ CreateRefs # {}

(***************************************************************************)
(* Failures and early exits of run().                                      *)
(***************************************************************************)
RemoteOps ==
  {"repos.get", "git.getRef", "git.createRef", "git.updateRef", "git.deleteRef",
   "repos.getContent", "repos.createOrUpdateFileContents", "pulls.list", "pulls.update",
   "pulls.create"}
RemoteCalls == {i \in DOMAIN log : log[i].op \in RemoteOps}

\* C11: a failure to fetch the tip of the default branch is fatal: the run
\* ends with a failure report and makes no create-ref, update-ref,
\* delete-ref, file-content or pull-request call.
GetRefFailureIsFatal ==
  \A i \in Failed("git.getRef") :
    /\ pc = "done"
    /\ Len(log) = i + 1
    /\ log[i + 1].op = "setFailed"
    /\ Cardinality(Idx("setFailed")) = 1
    /\ CreateRefs = {} /\ UpdateRefs = {} /\ DeleteRefs = {}
    /\ GetContents = {} /\ FileWrites = {}
    /\ PullCalls = {}

\* The tip fetch failed after the default branch was resolved remotely.
GetRefFailed ==
  /\ Failed("git.getRef") # {}
  /\ Succeeded("repos.get") # {}
  /\ pc = "done"

\* The value run() takes for an input: the input, or its default when empty.
Chosen(name, default) == IF inputs[name] # "" THEN inputs[name] ELSE default

BranchNameBad == includes(Chosen("pr-branch", "releaserun/badges-update"), "..")
StyleBad == Chosen("style", "flat") \notin {"flat", "flat-square", "plastic", "for-the-badge"}
LinkToBad == Chosen("link-to", "badge-page") \notin {"badge-page", "releaserun", "none"}
ServiceUrlBad ==
  inputs["badge-service-url"] # "" /\ ~startsWith(inputs["badge-service-url"], "https://")
\* The readme-path error of line 91: the resolved path does not begin with
\* the text of the resolved workspace path.
ReadmePathBad ==
  ~startsWith(pathResolve(env.cwd, Chosen("readme-path", "README.md")),
              pathResolve(env.cwd, IF env.GITHUB_WORKSPACE # "" THEN env.GITHUB_WORKSPACE
                                   ELSE env.cwd))

ConfigurationError ==
  /\ inputs["products"] # ""
  /\ BranchNameBad \/ StyleBad \/ LinkToBad \/ ServiceUrlBad \/ ReadmePathBad

ConfigurationReport(i) == log[i].op = "setFailed" /\ startsWith(log[i].msg, "Invalid ")

Credential == IF inputs["github-token"] # "" THEN inputs["github-token"] ELSE env.GITHUB_TOKEN

TokenStepOver == Succeeded("writeFileSync") # {} /\ pc # "token"

\* C13: in a run that reaches the remote phase the token is masked
\* (setSecret) before the client is created and before any remote call;
\* with neither the github-token input nor GITHUB_TOKEN set, the run ends
\* in failure and makes no remote call.
TokenMaskedBeforeUse ==
  /\ (RemoteCalls # {} \/ Idx("getOctokit") # {}) =>
       /\ Cardinality(Idx("setSecret")) = 1
       /\ Cardinality(Idx("getOctokit")) = 1
       /\ First(Idx("setSecret")) < First(Idx("getOctokit"))
       /\ \A r \in RemoteCalls : First(Idx("getOctokit")) < r
       /\ Credential # ""
       /\ log[First(Idx("setSecret"))].value = Credential
       /\ log[First(Idx("getOctokit"))].token = Credential
  /\ (TokenStepOver /\ Credential # "") => Idx("setSecret") # {}
  /\ (TokenStepOver /\ Credential = "") =>
       /\ pc = "done"
       /\ log[Len(log)] =
            setFailed("No GitHub token provided. Set github-token input or GITHUB_TOKEN env var.")
       /\ Idx("setSecret") = {}
       /\ Idx("getOctokit") = {}
       /\ RemoteCalls = {}

\* The token came from the environment and a remote call was made with it.
EnvTokenMaskedAndUsed ==
  /\ inputs["github-token"] = ""
  /\ \E i \in Idx("setSecret") : log[i].value = "env-token"
  /\ RemoteCalls # {}

PullWritten == Succeeded("pulls.update") \cup Succeeded("pulls.create")
PrOutputs == {i \in Idx("setOutput") : log[i].name \in {"pr-number", "pr-url"}}

\* C14: pr-number and pr-url are set only on full success, after the
\* update or the create of the pull request returned; a run that ends with
\* a failure report or leaves early never sets them.
PrOutputsOnlyOnSuccess ==
  /\ \A i \in PrOutputs :
       /\ \E j \in PullWritten : j < i
       /\ Idx("setFailed") = {}
       /\ pc = "done"
  /\ OutputSet("pr-number") <=> OutputSet("pr-url")
  /\ PullWritten # {} <=> PrOutputs # {}
  /\ (pc = "done" /\ (Idx("setFailed") # {} \/ PullCalls = {})) => PrOutputs = {}

\* A pull request was created and its number and URL were set.
CreatedPrReported ==
  /\ Succeeded("pulls.create") # {}
  /\ \E i \in PrOutputs : log[i] = setOutput("pr-number", "1")
  /\ \E i \in PrOutputs :
       log[i] = setOutput("pr-url", "https://github.com/test-owner/test-repo/pull/1")

\* The calls of run() whose rejection no inner catch handles: the tip fetch
\* and the second file write.
Uncaught ==
  Failed("git.getRef")
  \cup {i \in Failed("repos.createOrUpdateFileContents") : i # First(FileWrites)}

\* C15: an exception that no step handles is caught once, at the outermost
\* boundary: the message of an Error is reported as it is with setFailed,
\* anything else is reported as 'An unexpected error occurred'; run() still
\* returns normally.
UncaughtReportedOnce ==
  /\ \A i \in Uncaught :
       /\ pc = "done"
       /\ Len(log) = i + 1
       /\ log[i + 1] = (IF log[i].threw.isError
                        THEN setFailed(log[i].threw.message)
                        ELSE setFailed("An unexpected error occurred"))
       /\ Cardinality(Idx("setFailed")) = 1
  /\ (inputs["products"] = "" /\ pc # "start") =>
       /\ pc = "done"
       /\ log = <<setFailed("Input required and not supplied: products")>>

\* The tip fetch rejected with a value that is not an Error.
NonErrorThrownByGetRef ==
  /\ \E i \in Failed("git.getRef") : ~log[i].threw.isError
  /\ log[Len(log)] = setFailed("An unexpected error occurred")

\* The inputs were accepted and validation dropped every product line.
AllProductsDropped ==
  /\ pc \notin {"start", "parse"}
  /\ productsInput # ""
  /\ Len(parseProducts(productsInput).products) = 0

\* C16: when validation drops every product line the run ends cleanly with
\* a warning and without a failure report: no output is set, the document
\* is neither read nor written, and no remote call is made.
NoProductsExitsCleanly ==
  AllProductsDropped =>
    /\ pc = "done"
    /\ log[Len(log)] = warning("No valid products found in input. Nothing to do.")
    /\ \A i \in DOMAIN log : log[i].op = "warning"
    /\ Idx("setFailed") = {}
    /\ Idx("setOutput") = {}
    /\ Idx("readFileSync") = {} /\ Idx("writeFileSync") = {}
    /\ RemoteCalls = {}
    /\ badgesMarkdown = ""

\* The only product line was invalid: its warning, then the exit.
OnlyInvalidProduct ==
  /\ inputs["products"] = "INVALID"
  /\ pc = "done"
  /\ Len(log) = 2
  /\ log[1] = warning("Skipping invalid product name: \"INVALID\"")

\* The document that was read holds no start marker or no end marker.
MarkersMissing ==
  /\ ReadmeRead
  /\ ~includes(disk, START_MARKER) \/ ~includes(disk, END_MARKER)

\* C17: when the markers are not found in the document the run warns and
\* skips: it does not fail, it does not write the document, and it makes no
\* remote call.
MissingMarkersSkip ==
  MarkersMissing =>
    /\ pc = "done"
    /\ log[Len(log)].op = "warning"
    /\ startsWith(log[Len(log)].msg, "No badge markers found in " \o readmePath)
    /\ Idx("setFailed") = {}
    /\ Idx("writeFileSync") = {}
    /\ Idx("getOctokit") = {}
    /\ RemoteCalls = {}
    /\ ~result.markersFound /\ ~result.updated
    /\ result.content = disk

\* The run ended on the document without markers.
NoMarkersRunEnded ==
  /\ disk = README_NO_MARKERS
  /\ MarkersMissing
  /\ pc = "done"

(***************************************************************************)
(* The splice on its own (SpecSplice).                                     *)
(***************************************************************************)
\* Position of the first start marker and of the first end marker in the
\* document; -1 when there is none.
FirstStart == indexOf(disk, START_MARKER)

FirstEnd == indexOf(disk, END_MARKER)

MarkersInOrder == FirstStart # -1 /\ FirstEnd # -1 /\ FirstStart < FirstEnd

\* The document up to and including the first start marker, and from the
\* first end marker to its end.
UpToStart == SubSeq(disk, 1, FirstStart + Len(START_MARKER))

FromEnd == SubSeq(disk, FirstEnd + 1, Len(disk))

\* C18: when the first start marker precedes the first end marker, the
\* returned content is the document up to and including the start marker, a
\* newline, the markup, a newline, and the document from the end marker on;
\* what precedes the start marker and what follows the end marker is kept
\* as it was, and both markers are still there.
SpliceKeepsSurroundings ==
  (pc = "spliced" /\ MarkersInOrder) =>
     /\ result.markersFound
     /\ result.content = UpToStart \o "\n" \o badgesMarkdown \o "\n" \o FromEnd
     /\ startsWith(result.content, SubSeq(disk, 1, FirstStart) \o START_MARKER)
     /\ endsWith(result.content,
                 END_MARKER \o SubSeq(disk, FirstEnd + Len(END_MARKER) + 1, Len(disk)))

\* C18 witness: a document with text before the start marker, old badges
\* between the markers and text after the end marker has been spliced.
SplicedBetweenMarkers ==
  /\ pc = "spliced"
  /\ MarkersInOrder
  /\ FirstStart > 0
  /\ FirstEnd > FirstStart + Len(START_MARKER)
  /\ FirstEnd + Len(END_MARKER) < Len(disk)
  /\ badgesMarkdown # ""
  /\ result.updated

\* C19: when a marker is missing, or the first end marker comes before the
\* first start marker, the answer is markersFound = false, updated = false
\* and the document itself; updated = true never comes with
\* markersFound = false.
NoMarkersNoChange ==
  pc \in {"spliced", "respliced"} =>
     /\ ~MarkersInOrder =>
          result = [updated |-> FALSE, content |-> disk, markersFound |-> FALSE]
     /\ result.updated => result.markersFound

\* C19 witness: both markers are in the document, the end marker first, and
\* the splice refused it.
EndBeforeStartRefused ==
  /\ pc = "spliced"
  /\ FirstStart # -1
  /\ FirstEnd # -1
  /\ FirstEnd < FirstStart
  /\ ~result.markersFound

\* C20: when the markers are found, updated tells whether the new content
\* differs from the document, and splicing the spliced content again with
\* the same markup gives updated = false and the same content.
SpliceIdempotent ==
  /\ (pc = "spliced" /\ result.markersFound) =>
        (result.updated <=> result.content # disk)
  /\ pc = "respliced" => ~result.updated /\ result.content = disk

\* Whether a markup holds neither marker.
MarkerFree(markup) == ~includes(markup, START_MARKER) /\ ~includes(markup, END_MARKER)

\* What a document holds between its first start marker and its first end
\* marker.
BetweenMarkers(doc) ==
  substring(doc, indexOf(doc, START_MARKER) + Len(START_MARKER), indexOf(doc, END_MARKER))

\* C21: for a document with the markers in order and two markups that hold
\* neither marker, splicing the first and then the second gives the
\* document that splicing the second alone gives; between the markers it
\* holds the second markup, on a line of its own, and nothing else.
SpliceRoundTrip ==
  [][(/\ pc = "spliced" /\ pc' = "replaced"
      /\ MarkersInOrder
      /\ MarkerFree(badgesMarkdown) /\ MarkerFree(badgesMarkdown'))
     => /\ result'.markersFound
        /\ result'.content = updateReadmeContent(disk, badgesMarkdown').content
        /\ BetweenMarkers(result'.content) = "\n" \o badgesMarkdown' \o "\n"]_vars

\* C21 witness: a second markup without markers replaced a first one, and
\* the content changed with it.
SecondMarkupReplacedFirst ==
  /\ pc = "replaced"
  /\ MarkersInOrder
  /\ MarkerFree(badgesMarkdown)
  /\ badgesMarkdown # ""
  /\ result.updated
  /\ BetweenMarkers(result.content) = "\n" \o badgesMarkdown \o "\n"

(***************************************************************************)
(* Parsing and rendering (SpecInputs).                                     *)
(***************************************************************************)
\* The products input was parsed and at least one product was returned.
Parsed == pc = "read"

\* The non-blank lines of the products input, trimmed, that parseProducts
\* looks at: the first MAX_PRODUCTS of them.
NonBlankLines ==
  LET parts == split(inputs["products"], "\n")
  IN  SelectSeq([i \in 1..Len(parts) |-> trim(parts[i])], LAMBDA l : l # "")

ConsideredLines ==
  IF Len(NonBlankLines) > MAX_PRODUCTS THEN SubSeq(NonBlankLines, 1, MAX_PRODUCTS)
  ELSE NonBlankLines

\* Whether product p is what line l names: name, name: or name:version.
Names(l, p) ==
  \/ l = p.product \o ":" \o p.version
  \/ p.version = "" /\ l = p.product

\* C22: every returned product has a name matching ^[a-z0-9][a-z0-9._-]*$
\* and a version that is absent, 'latest' or matches
\* ^[a-zA-Z0-9][a-zA-Z0-9._-]*$; the products are, one by one and in input
\* order, what the lines that name a returned product name.
ProductsValidAndOrdered ==
  Parsed =>
    /\ \A i \in DOMAIN products :
         /\ PRODUCT_PATTERN(products[i].product)
         /\ \/ products[i].version = undefined
            \/ products[i].version = "latest"
            \/ VERSION_PATTERN(products[i].version)
    /\ LET kept == SelectSeq(ConsideredLines,
                             LAMBDA l : \E i \in DOMAIN products : Names(l, products[i]))
       IN  /\ Len(kept) = Len(products)
           /\ \A i \in DOMAIN products : Names(kept[i], products[i])

\* C22 witness: two different products were returned and a line was dropped
\* with a warning.
TwoProductsOneDropped ==
  /\ Parsed
  /\ Len(products) >= 2
  /\ products[1] # products[2]
  /\ \E i \in Idx("warning") : startsWith(log[i].msg, "Skipping invalid")

\* The products input passed validation and was parsed.
ParseDone == pc \notin {"start", "parse"} /\ Idx("setFailed") = {}

\* Name and version of a line with a colon: the text before and after the
\* first colon.
NameOf(l) == IF includes(l, ":") THEN substring(l, 0, indexOf(l, ":")) ELSE l

VersionOf(l) == substringFrom(l, indexOf(l, ":") + 1)

\* Whether line l has a colon and the text after it is neither 'latest'
\* nor matches ^[a-zA-Z0-9][a-zA-Z0-9._-]*$.
VersionRefused(l) ==
  includes(l, ":") /\ VersionOf(l) # "latest" /\ ~VERSION_PATTERN(VersionOf(l))

\* Line k of the non-blank lines gave no product and a warning was emitted
\* for it: about its name or its version when it is among the lines looked
\* at, about the truncation otherwise.
DroppedWithWarning(k) ==
  LET l == NonBlankLines[k]
  IN  /\ \A i \in DOMAIN products : ~Names(l, products[i])
      /\ \E i \in Idx("warning") :
           IF k > MAX_PRODUCTS THEN startsWith(log[i].msg, "Maximum of ")
           ELSE IF PRODUCT_PATTERN(NameOf(l))
           THEN log[i].msg = "Skipping invalid version \"" \o VersionOf(l)
                             \o "\" for product \"" \o NameOf(l) \o "\""
           ELSE log[i].msg = "Skipping invalid product name: \"" \o NameOf(l) \o "\""

\* C23 as stated: every non-blank line with a colon whose text after the
\* first colon is neither 'latest' nor matches the version pattern is
\* dropped with a warning.
BadVersionDropsLine ==
  ParseDone =>
    \A k \in DOMAIN NonBlankLines :
      VersionRefused(NonBlankLines[k]) => DroppedWithWarning(k)

\* C23 amended: every non-blank line with a colon whose text after the first
\* colon is not empty and is neither 'latest' nor matches the version
\* pattern is dropped with a warning; a line among those looked at with a
\* valid name and nothing after its colon gives a product without version.
NonEmptyBadVersionDropsLine ==
  ParseDone =>
    \A k \in DOMAIN NonBlankLines :
      LET l == NonBlankLines[k]
      IN  /\ (VersionRefused(l) /\ VersionOf(l) # "") => DroppedWithWarning(k)
          /\ (k <= MAX_PRODUCTS /\ includes(l, ":") /\ VersionOf(l) = ""
              /\ PRODUCT_PATTERN(NameOf(l)))
             => \E i \in DOMAIN products :
                  products[i] = [product |-> NameOf(l), version |-> undefined]

\* C23 witness: a line with a valid name and a refused, non-empty version was
\* dropped with the version warning while another line gave a product.
BadVersionLineDropped ==
  /\ ParseDone
  /\ Len(products) >= 1
  /\ \E k \in DOMAIN NonBlankLines :
       /\ VersionRefused(NonBlankLines[k])
       /\ VersionOf(NonBlankLines[k]) # ""
       /\ PRODUCT_PATTERN(NameOf(NonBlankLines[k]))
       /\ DroppedWithWarning(k)

\* The warnings about the product cap.
TruncationWarnings == {i \in Idx("warning") : startsWith(log[i].msg, "Maximum of ")}

\* Whether a line passes the validation of its name and of its version.
LineAccepted(l) ==
  /\ PRODUCT_PATTERN(NameOf(l))
  /\ includes(l, ":") => (VersionOf(l) = "" \/ ~VersionRefused(l))

\* C24: at most MAX_PRODUCTS products are returned; with more than
\* MAX_PRODUCTS non-blank lines there is exactly one truncation warning
\* (none otherwise) and the products are those of the first MAX_PRODUCTS
\* lines that pass validation; MAX_PRODUCTS + 1 valid lines give
\* MAX_PRODUCTS products and one warning in all.
ProductCap ==
  ParseDone =>
    /\ Len(products) <= MAX_PRODUCTS
    /\ Cardinality(TruncationWarnings)
         = IF Len(NonBlankLines) > MAX_PRODUCTS THEN 1 ELSE 0
    /\ Len(products)
         = Cardinality({k \in 1..Len(NonBlankLines) :
                          k <= MAX_PRODUCTS /\ LineAccepted(NonBlankLines[k])})
    /\ inputs["products"] = ProductLines(MAX_PRODUCTS + 1) =>
         /\ Len(products) = MAX_PRODUCTS
         /\ Cardinality(Idx("warning")) = 1
         /\ products[MAX_PRODUCTS].product = "product" \o ToString(MAX_PRODUCTS - 1)

\* C24 witness: more than MAX_PRODUCTS lines were given, one of the first
\* MAX_PRODUCTS was refused, and a valid line beyond them gave no product.
TruncatedAndValidated ==
  /\ ParseDone
  /\ Len(NonBlankLines) > MAX_PRODUCTS
  /\ LineAccepted(NonBlankLines[MAX_PRODUCTS + 1])
  /\ \E k \in 1..MAX_PRODUCTS : ~LineAccepted(NonBlankLines[k])
  /\ Len(products) = MAX_PRODUCTS - 1
  /\ Cardinality(TruncationWarnings) = 1

\* The entries of the comma-separated badge-types input (health when the
\* input is empty), trimmed and lower-cased.
TypeEntries ==
  LET parts == split(Chosen("badge-types", "health"), ",")
  IN  [i \in 1..Len(parts) |-> toLowerCase(trim(parts[i]))]

BadgeCategories == {"health", "eol", "freshness", "cve", "cloud"}

\* C25: the badge types are never empty and all of them are among health,
\* eol, freshness, cve and cloud: they are the valid entries of the input
\* after trimming and lower-casing, in input order, or health alone when no
\* entry is valid.
BadgeTypesValidOrDefault ==
  Parsed =>
    LET valid == SelectSeq(TypeEntries, LAMBDA t : t \in BadgeCategories)
    IN  /\ Len(badgeTypes) > 0
        /\ \A i \in DOMAIN badgeTypes : badgeTypes[i] \in BadgeCategories
        /\ badgeTypes = IF valid = <<>> THEN <<"health">> ELSE valid

\* C25 witness: an entry written in capitals was kept in lower case, after
\* another valid entry, and an invalid entry was dropped.
MixedTypesFiltered ==
  /\ Parsed
  /\ includes(inputs["badge-types"], "CVE")
  /\ \E i \in DOMAIN TypeEntries : TypeEntries[i] \notin BadgeCategories
  /\ Len(badgeTypes) >= 2
  /\ badgeTypes[Len(badgeTypes)] = "cve"
  /\ badgeTypes[1] # "cve"

\* A badge-service-url was given and went through validation.
ServiceUrlChecked == pc # "start" /\ inputs["badge-service-url"] # ""

ServiceUrlAccepted == ServiceUrlChecked /\ badgeBaseUrl # undefined

ServiceUrlRefused ==
  /\ pc = "done"
  /\ \E i \in Idx("setFailed") : startsWith(log[i].msg, "Invalid badge-service-url")
  /\ badgeBaseUrl = undefined

\* Whether a host is four numbers separated by dots.
IPv4Literal(host) ==
  LET labels == split(host, ".")
  IN  Len(labels) = 4 /\ \A i \in 1..4 : labels[i] # "" /\ allDigits(labels[i])

\* C26: a badge-service-url is accepted only if it parses as an absolute
\* URL, its scheme is https, its host is not an IPv4 literal, a bracketed
\* literal or localhost, and its host is releaserun.com or ends with
\* .releaserun.com; https://releaserun.com and https://sub.releaserun.com
\* are accepted; releaserun.com.evil.com, 192.168.1.1, localhost and every
\* http URL are refused.
ServiceUrlHostRule ==
  ServiceUrlChecked =>
    LET url    == inputs["badge-service-url"]
        parsed == parseURL(url)
    IN  /\ ServiceUrlAccepted \/ ServiceUrlRefused
        /\ ServiceUrlAccepted =>
             /\ parsed.valid
             /\ parsed.protocol = "https:"
             /\ toLowerCase(substring(url, 0, 6)) = "https:"
             /\ ~IPv4Literal(parsed.hostname)
             /\ ~startsWith(parsed.hostname, "[")
             /\ parsed.hostname # "localhost"
             /\ \/ parsed.hostname = "releaserun.com"
                \/ endsWith(parsed.hostname, ".releaserun.com")
        /\ url \in {"https://releaserun.com", "https://sub.releaserun.com"}
             => ServiceUrlAccepted
        /\ (\/ url \in {"https://releaserun.com.evil.com", "https://192.168.1.1",
                        "https://localhost"}
            \/ startsWith(url, "http://"))
             => ServiceUrlRefused

\* C26 witness: a URL on a subdomain, with a port and a path, was accepted
\* and became the base of the badge URLs.
SubdomainUrlAccepted ==
  /\ ServiceUrlAccepted
  /\ inputs["badge-service-url"] = "https://sub.releaserun.com:8443/base/"
  /\ badgeBaseUrl = "https://sub.releaserun.com:8443/base/badge"

(***************************************************************************)
(* Branch name and document path (Spec).                                   *)
(***************************************************************************)
\* Whether a branch name contains '..', starts or ends with '/', ends with
\* '.lock', or holds a control character, a space or one of ~ ^ : ? * [ \.
BranchNameForbidden(b) ==
  \/ \E i \in 0..(Len(b) - 2) : charAt(b, i) = "." /\ charAt(b, i + 1) = "."
  \/ b # "" /\ (charAt(b, 0) = "/" \/ charAt(b, Len(b) - 1) = "/")
  \/ Len(b) >= 5 /\ substringFrom(b, Len(b) - 5) = ".lock"
  \/ \E i \in 0..(Len(b) - 1) :
       charAt(b, i) \in {"\t", "\n", "\f", "\r", " ", "~", "^", ":", "?", "*", "[", "\\"}

RefWrites == CreateRefs \cup UpdateRefs \cup DeleteRefs

\* The branch a ref call names: its ref without heads/ or refs/heads/.
BranchOfRef(ref) ==
  IF startsWith(ref, "refs/heads/") THEN substringFrom(ref, Len("refs/heads/"))
  ELSE substringFrom(ref, Len("heads/"))

\* C27: a pr-branch that contains '..', starts or ends with '/', ends with
\* '.lock' or holds a control character, a space or one of ~ ^ : ? * [ \
\* makes the run fail before any ref is created, updated or deleted; every
\* branch name passed to a create-ref, update-ref or delete-ref call is free
\* of all of these.
ForbiddenBranchNeverReachesRefs ==
  /\ (/\ pc # "start" /\ inputs["products"] # ""
      /\ BranchNameForbidden(Chosen("pr-branch", "releaserun/badges-update")))
     => /\ pc = "done"
        /\ log = <<setFailed("Invalid pr-branch: \"" \o inputs["pr-branch"]
                             \o "\". Branch name contains invalid characters.")>>
        /\ RefWrites = {}
  /\ \A i \in RefWrites :
       /\ BranchOfRef(log[i].ref) = Chosen("pr-branch", "releaserun/badges-update")
       /\ ~BranchNameForbidden(BranchOfRef(log[i].ref))

\* C27 witness: a branch name ending with .lock was refused with nothing
\* else done.
LockBranchRefused ==
  /\ pc = "done"
  /\ inputs["pr-branch"] = "name.lock"
  /\ Len(log) = 1
  /\ startsWith(log[1].msg, "Invalid pr-branch: \"name.lock\"")

\* The components of the resolved document path and of the resolved
\* workspace root.
PathComponents(p) == SelectSeq(split(p, "/"), LAMBDA c : c # "")

ResolvedReadme ==
  PathComponents(pathResolve(env.cwd, Chosen("readme-path", "README.md")))

WorkspaceRoot ==
  PathComponents(pathResolve(env.cwd, IF env.GITHUB_WORKSPACE # "" THEN env.GITHUB_WORKSPACE
                                      ELSE env.cwd))

\* Whether the resolved document path is the workspace root or a descendant
\* of it, component by component.
InsideWorkspace ==
  /\ Len(WorkspaceRoot) <= Len(ResolvedReadme)
  /\ SubSeq(ResolvedReadme, 1, Len(WorkspaceRoot)) = WorkspaceRoot

\* C28: when the resolved readme-path is neither the workspace root nor a
\* descendant of it, the run fails with 'must be within repository
\* workspace' and the document is neither read nor written.
OutsideWorkspaceRefused ==
  (/\ pc # "start" /\ inputs["products"] # ""
   /\ ~InsideWorkspace)
  => /\ pc = "done"
     /\ log = <<setFailed("Invalid readme-path: must be within repository workspace")>>
     /\ Idx("readFileSync") = {} /\ Idx("writeFileSync") = {}

\* How many badge units a text holds: each unit opens with [![ .
Units(text) == Cardinality({i \in 0..(Len(text) - 3) : substring(text, i, i + 3) = "[!["})

\* The line of product p: its unit for each badge type, in the order of the
\* types, with one space between two units.
LineOf(p) ==
  concat([j \in DOMAIN badgeTypes |->
            (IF j = 1 THEN "" ELSE " ")
            \o generateBadgeMarkdown(products[p], badgeTypes[j], style, linkTo, badgeBaseUrl)],
         1, Len(badgeTypes))

\* C29: the markup has one line per product, in product order; each line
\* holds one unit per badge type, in the order of the types, joined by one
\* space; the lines are joined by newlines; the number of units is
\* |products| x |types| and is the value of the badges-count output.
OneLinePerProduct ==
  Parsed =>
    LET lines == split(badgesMarkdown, "\n")
    IN  /\ Len(lines) = Len(products)
        /\ \A p \in DOMAIN products :
             /\ lines[p] = LineOf(p)
             /\ Units(lines[p]) = Len(badgeTypes)
        /\ Units(badgesMarkdown) = Len(products) * Len(badgeTypes)
        /\ \E i \in Idx("setOutput") :
             /\ log[i].name = "badges-count"
             /\ log[i].value = ToString(Units(badgesMarkdown))
        /\ \E i \in Idx("setOutput") :
             log[i].name = "badges-markdown" /\ log[i].value = badgesMarkdown

\* C29 witness: two products and two badge types gave two lines of two
\* units and a count of 4.
TwoByTwo ==
  /\ Parsed
  /\ Len(products) = 2 /\ badgeTypes = <<"health", "eol">>
  /\ Len(split(badgesMarkdown, "\n")) = 2
  /\ Units(split(badgesMarkdown, "\n")[1]) = 2
  /\ \E i \in Idx("setOutput") : log[i].name = "badges-count" /\ log[i].value = "4"

\* {baseUrl}/{category}/{product}[/{version}].svg[?style={style}] for a
\* product, a badge type and a style, on the base URL of the run.
ExpectedBadgeUrl(p, t, st) ==
  (IF badgeBaseUrl # undefined THEN badgeBaseUrl ELSE "https://img.releaserun.com/badge")
  \o "/" \o t \o "/" \o p.product
  \o (IF p.version # undefined THEN "/" \o p.version ELSE "")
  \o ".svg"
  \o (IF st # undefined /\ st # "flat" THEN "?style=" \o st ELSE "")

\* C30: for every product and badge type of the run and every style (none,
\* flat, flat-square, plastic, for-the-badge) getBadgeUrl is
\* {baseUrl}/{category}/{product}[/{version}].svg, with the version segment
\* exactly when the product has a version, and with ?style={style} exactly
\* when a style is given and is not flat; flat gives the URL that no style
\* gives; the URL for the style of the run is the image of the unit.
BadgeUrlShape ==
  Parsed =>
    \A i \in DOMAIN products, j \in DOMAIN badgeTypes :
      LET p == products[i]
          t == badgeTypes[j]
      IN  /\ \A st \in {undefined, "flat", "flat-square", "plastic", "for-the-badge"} :
               getBadgeUrl(t, p.product, p.version, st, badgeBaseUrl)
                 = ExpectedBadgeUrl(p, t, st)
          /\ getBadgeUrl(t, p.product, p.version, "flat", badgeBaseUrl)
               = getBadgeUrl(t, p.product, p.version, undefined, badgeBaseUrl)
          /\ includes(badgesMarkdown, "](" \o ExpectedBadgeUrl(p, t, style) \o ")](")

\* C30 witness: with the style for-the-badge and a custom base URL, a
\* product with a version and one without got their URLs.
StyledUrlsRendered ==
  /\ Parsed
  /\ style = "for-the-badge"
  /\ badgeBaseUrl = "https://releaserun.com/badge"
  /\ \E i, k \in DOMAIN products : products[i].version # undefined /\ products[k].version = undefined
  /\ includes(badgesMarkdown, "https://releaserun.com/badge/eol/python/3.12.svg?style=for-the-badge)")
  /\ includes(badgesMarkdown, "https://releaserun.com/badge/eol/node.svg?style=for-the-badge)")

\* The link target the link mode of the run gives for a product and a badge
\* type.
ExpectedLinkUrl(p, t) ==
  CASE linkTo = "badge-page" -> "https://releaserun.com/badges/" \o p.product \o "/"
    [] linkTo = "releaserun" -> "https://releaserun.com"
    [] linkTo = "none"       -> ExpectedBadgeUrl(p, t, style)

\* C31: every badge unit of the markup links to the target its link mode
\* gives: badge-page to https://releaserun.com/badges/{product}/, releaserun
\* to https://releaserun.com, none to the unit's own image URL; for the first
\* two the target does not depend on the image URL.
LinkTargetByMode ==
  Parsed =>
    /\ linkTo \in {"badge-page", "releaserun", "none"}
    /\ LET lines == split(badgesMarkdown, "\n")
       IN  \A i \in DOMAIN products :
             lines[i] =
               join([j \in DOMAIN badgeTypes |->
                       "[![" \o getBadgeLabel(badgeTypes[j], products[i].product, products[i].version)
                       \o "](" \o ExpectedBadgeUrl(products[i], badgeTypes[j], style)
                       \o ")](" \o ExpectedLinkUrl(products[i], badgeTypes[j]) \o ")"], " ")
    /\ \A i \in DOMAIN products, j \in DOMAIN badgeTypes :
         /\ getLinkUrl(linkTo, products[i].product,
                       ExpectedBadgeUrl(products[i], badgeTypes[j], style))
              = ExpectedLinkUrl(products[i], badgeTypes[j])
         /\ linkTo # "none" =>
              getLinkUrl(linkTo, products[i].product, "http://badge")
                = ExpectedLinkUrl(products[i], badgeTypes[j])

\* C31 witness: with the link mode none and a style, a unit links to its own
\* image.
UnitLinksToItsImage ==
  /\ Parsed
  /\ linkTo = "none"
  /\ style = "plastic"
  /\ includes(badgesMarkdown,
              "](https://img.releaserun.com/badge/health/node.svg?style=plastic)](https://img.releaserun.com/badge/health/node.svg?style=plastic)")

(***************************************************************************)
(* The remote steps of one run (Spec).                                     *)
(***************************************************************************)
\* The get-content call at i found no file: it threw, or returned a
\* directory listing or an entry that is not a file.
DocumentAbsent(i) ==
  \/ ~log[i].ok
  \/ log[i].data.isArray
  \/ log[i].data.type # "file"

\* C33: a get-content call that fails, or returns a directory listing or a
\* non-file entry, ends nothing: the run goes on to the file write, which is
\* submitted with no revision marker; after a get-content that returned a
\* file the write carries that file's revision marker.
AbsentDocumentIsCreated ==
  /\ \A g \in GetContents :
       /\ Idx("setFailed") \cap 1..(g + 1) = {}
       /\ Len(log) = g => pc \in {"commit", "retryCommit"}
       /\ Len(log) > g =>
            /\ log[g + 1].op = "repos.createOrUpdateFileContents"
            /\ log[g + 1].path = log[g].path
            /\ log[g + 1].branch = log[g].ref
            /\ DocumentAbsent(g) => log[g + 1].sha = undefined
            /\ ~DocumentAbsent(g) =>
                 log[g + 1].sha = log[g].data.sha /\ log[g + 1].sha # undefined
  /\ \A w \in FileWrites : w - 1 \in GetContents

\* C33 witness: the fetch returned a symbolic link, the write went out
\* without a marker and was accepted, and the run went on.
SymlinkTreatedAsAbsent ==
  /\ pc = "pullsList"
  /\ Cardinality(FileWrites) = 1
  /\ \E g \in GetContents :
       /\ log[g].ok /\ log[g].data.type = "symlink" /\ log[g].data.sha # undefined
       /\ log[g + 1].sha = undefined /\ log[g + 1].ok

\* The remote calls whose failure the run recovers from on the way: the
\* first create-ref, the update-ref and the content fetches.
RecoveredCalls ==
  (IF CreateRefs = {} THEN {} ELSE {First(CreateRefs)}) \cup UpdateRefs \cup GetContents

\* The run has called the remote, and no remote call outside RecoveredCalls
\* has failed.
OnlyRecoveredFailures ==
  /\ RemoteCalls # {}
  /\ \A i \in RemoteCalls : ~log[i].ok => i \in RecoveredCalls

\* C34: a run that has reached the remote and in which only the first
\* create-ref, the non-force update-ref and get-content have failed reports
\* no failure: it is still on its way, or it has ended with the file
\* written and pr-number and pr-url set; a failed update-ref shows as
\* warnings, the other two failures as nothing worse than an info line.
RecoveredFailuresNeverReported ==
  OnlyRecoveredFailures =>
    /\ Idx("setFailed") = {}
    /\ pc \in {"getRef", "createRef", "updateRef", "deleteRef", "recreateRef", "getContent",
               "commit", "pullsList", "pullsWrite", "done"}
    /\ pc = "done" =>
         /\ Succeeded("repos.createOrUpdateFileContents") # {}
         /\ PullWritten # {}
         /\ OutputSet("pr-number") /\ OutputSet("pr-url")
         /\ log[Len(log)].op = "setOutput"
    /\ \A u \in Failed("git.updateRef") :
         log[u + 1].op = "warning" /\ log[u + 2].op = "warning"
    /\ \A i \in RecoveredCalls :
         (~log[i].ok /\ Len(log) > i /\ log[i].op # "git.updateRef") =>
           log[i + 1].op \in RemoteOps

\* C34 witness: the three recoverable failures all happened and the run
\* ended in success.
AllThreeRecovered ==
  /\ pc = "done"
  /\ OnlyRecoveredFailures
  /\ ~log[First(CreateRefs)].ok
  /\ Failed("git.updateRef") # {}
  /\ Failed("repos.getContent") # {}
  /\ Succeeded("git.deleteRef") # {}
  /\ OutputSet("pr-number") /\ OutputSet("pr-url")

\* The ways a run ends.
EndedInSuccess ==
  /\ Idx("setFailed") = {}
  /\ PullWritten # {}
  /\ OutputSet("pr-number") /\ OutputSet("pr-url")
EndedAsNoOp ==
  /\ Idx("setFailed") = {}
  /\ RemoteCalls = {}
  /\ PrOutputs = {}
  /\ log # <<>> /\ log[Len(log)].op \in {"warning", "info"}
EndedInFailure ==
  /\ Cardinality(Idx("setFailed")) = 1
  /\ log[Len(log)].op = "setFailed"
  /\ PrOutputs = {}

\* The most calls of each kind a run issues.
CallsBounded ==
  /\ Cardinality(Idx("repos.get")) <= 1
  /\ Cardinality(Idx("git.getRef")) <= 1
  /\ Cardinality(CreateRefs) <= 2
  /\ Cardinality(UpdateRefs) <= 1
  /\ Cardinality(DeleteRefs) <= 1
  /\ Cardinality(GetContents) <= 2
  /\ Cardinality(FileWrites) <= 2
  /\ Cardinality(Idx("pulls.list")) <= 1
  /\ Cardinality(Idx("pulls.update") \cup Idx("pulls.create")) <= 1

\* The place of a step in run(): the steps are statements of one function
\* body without a loop, so control only moves down.
StepOrder ==
  <<"start", "parse", "read", "write", "token", "reposGet", "getRef", "createRef",
    "updateRef", "deleteRef", "recreateRef", "getContent", "commit", "retryGetContent",
    "retryCommit", "pullsList", "pullsWrite", "done">>
Rank(step) == CHOOSE k \in DOMAIN StepOrder : StepOrder[k] = step

EffectCalls ==
  RemoteCalls \cup Idx("writeFileSync") \cup Idx("setOutput") \cup Idx("getOctokit")

\* C39: setFailed is called at most once in a run; it ends the run, so no
\* remote call, no write of the document and no output follows it; and a
\* run that set pr-number holds no setFailed.
FailureReportIsFinal ==
  /\ Cardinality(Idx("setFailed")) <= 1
  /\ \A i \in Idx("setFailed") :
       /\ pc = "done"
       /\ \A j \in EffectCalls : j < i
       /\ i = Len(log)
  /\ OutputSet("pr-number") => Idx("setFailed") = {}

\* C39 witness: the pull request could not be created; the report is the
\* last call, after the commit and the first three outputs.
ReportAfterCommitIsLast ==
  /\ pc = "done"
  /\ Failed("pulls.create") # {}
  /\ log[Len(log)].op = "setFailed"
  /\ Succeeded("repos.createOrUpdateFileContents") # {}
  /\ OutputSet("badges-count")
  /\ ~OutputSet("pr-number")

\* The calls that need or reveal the token.
TokenUses == RemoteCalls \cup Idx("setSecret") \cup Idx("getOctokit")

\* The report of the missing token.
NoTokenReported ==
  \E i \in Idx("setFailed") : startsWith(log[i].msg, "No GitHub token provided")

\* The write at w put the spliced content into the local document.
SplicedWrite(w) ==
  /\ log[w].op = "writeFileSync"
  /\ log[w].ok
  /\ log[w].path = fullPath
  /\ log[w].content = result.content
  /\ result.markersFound /\ result.updated

\* C40: the token is looked up only after the local document has been
\* written: every remote call, and the masking of the token and the creation
\* of the client, comes after a successful local write of the spliced
\* content, which exists only when the markers were found and the content
\* changed; a run that fails for want of a token has already overwritten the
\* local document and has called nothing remote.
TokenAfterLocalWrite ==
  /\ \A i \in TokenUses : \E w \in 1..(i - 1) : SplicedWrite(w)
  /\ token # undefined => \E w \in DOMAIN log : SplicedWrite(w)
  /\ NoTokenReported =>
       /\ \E w \in DOMAIN log : SplicedWrite(w)
       /\ disk = result.content
       /\ includes(disk, badgesMarkdown)
       /\ TokenUses = {}
       /\ token = undefined
       /\ pc = "done"

\* C40 witness: no token in the input or the environment; the run failed
\* with the document already overwritten with the new markup.
NoTokenAfterOverwrite ==
  /\ NoTokenReported
  /\ inputs["github-token"] = "" /\ env.GITHUB_TOKEN = ""
  /\ disk # README_WITH_MARKERS
  /\ includes(disk, "https://img.releaserun.com/badge/health/python/3.12.svg")
  /\ log[Len(log) - 2].op = "writeFileSync"

(***************************************************************************)
(* Two runs against one repository (SpecPair).                             *)
(***************************************************************************)
\* The document on the working branch of the repository, and its revision
\* marker.
BranchExists == remote.repo.head # 0
BranchDocument == remote.repo.commits[remote.repo.head].content
BranchMarker == blobSha(BranchDocument)

\* What a run did, read from its call record l.
CommittedBy(l) ==
  {l[i].content : i \in {j \in DOMAIN l : l[j].op = "repos.createOrUpdateFileContents"
                                          /\ l[j].ok}}
FetchedBy(l) ==
  {l[i].data.sha : i \in {j \in DOMAIN l : l[j].op = "repos.getContent" /\ l[j].ok
                                           /\ ~l[j].data.isArray
                                           /\ l[j].data.type = "file"}}
Succeeded2(l) ==
  /\ \E i \in DOMAIN l : l[i].op = "setOutput" /\ l[i].name = "pr-number"
  /\ \A i \in DOMAIN l : l[i].op # "setFailed"
BothSucceeded ==
  /\ pc = "done" /\ suspended.pc = "done"
  /\ Succeeded2(log) /\ Succeeded2(suspended.log)

\* A step in which the repository accepted a file write of the executing run.
WriteAccepted == Len(remote'.repo.commits) > Len(remote.repo.commits)

NoCommitOfItsOwn ==
  BranchExists /\ descends(remote.repo.commits, remote.repo.tip, remote.repo.head)

\* The executing run takes a step of its own.
RunSteps == runs' = runs

\* C37: on a repository that accepts a non-force update of a ref only to a
\* commit that descends from the ref's head, the update-ref of line 199
\* succeeds only when the working branch has no commit of its own, and then
\* leaves the branch at the tip of the default branch; when the branch holds
\* a commit that is not in the default branch (the commit of an earlier run
\* whose pull request is not merged), the update is refused and the run goes
\* on to delete the branch and create it again at the tip, after which that
\* commit is no longer on the branch.
OwnCommitsAreDiscarded ==
  [][RunSteps =>
       /\ (pc = "updateRef" /\ pc' = "getContent") =>
            /\ NoCommitOfItsOwn
            /\ remote'.repo.head = remote.repo.tip
       /\ (pc = "updateRef" /\ BranchExists /\ ~NoCommitOfItsOwn) =>
            /\ pc' = "deleteRef"
            /\ UNCHANGED remote
       /\ (pc = "deleteRef" /\ pc' = "recreateRef") => ~BranchExists'
       /\ (pc = "recreateRef" /\ pc' = "getContent") =>
            /\ ~BranchExists
            /\ remote'.repo.head = remote.repo.tip
            /\ NoCommitOfItsOwn'
            /\ \A i \in DOMAIN log :
                 log[i].op = "git.updateRef" => ~log[i].ok /\ ~log[i].force]_vars

\* C37 witness: the working branch held the commit of an earlier run; the
\* run, alone so far, was refused the update, deleted the branch and created
\* it again at the tip of the default branch.
EarlierCommitDiscarded ==
  /\ pc = "getContent"
  /\ suspended.pc = "start"
  /\ Failed("git.updateRef") # {}
  /\ Succeeded("git.deleteRef") # {}
  /\ Cardinality(CreateRefs) = 2
  /\ remote.repo.head = remote.repo.tip
  /\ ~descends(remote.repo.commits, remote.repo.head, 3)
  /\ Len(remote.prs) = 1

\* The calls of a record l that changed the repository's refs or files.
Changes(l) ==
  {i \in DOMAIN l : /\ l[i].op \in {"git.createRef", "git.updateRef", "git.deleteRef",
                                    "repos.createOrUpdateFileContents"}
                    /\ l[i].ok}

\* The run's calls on the working branch's ref.
BranchCalls == Idx("git.createRef") \cup Idx("git.updateRef") \cup Idx("git.deleteRef")

\* The other run has changed nothing on the repository.
OtherRunQuiet == Changes(suspended.log) = {}

\* C38: every create-ref and update-ref of a run carries the commit id that
\* the run's one get-ref returned for heads/<default branch>, the tip of the
\* default branch; so, while the other run has changed nothing, a run that is
\* past the branch step and has not yet written the file finds the working
\* branch at exactly that tip, whether it created the branch, updated it, or
\* deleted and re-created it.
BranchStepLeavesTip ==
  /\ \A i \in Idx("git.createRef") \cup Idx("git.updateRef") :
       /\ log[i].sha = refData
       /\ refData = commitSha(remote.repo.tip)
       /\ Cardinality(Idx("git.getRef")) = 1
       /\ \A g \in Idx("git.getRef") :
            g < i /\ log[g].ok /\ log[g].ref = "heads/" \o defaultBranch
  /\ (OtherRunQuiet /\ pc \in {"getContent", "commit"}) =>
       /\ BranchExists
       /\ commitSha(remote.repo.head) = refData
       /\ remote.repo.head = remote.repo.tip
       /\ \/ Succeeded("git.createRef") # {} /\ Cardinality(BranchCalls) = 1
          \/ Succeeded("git.updateRef") # {} /\ Cardinality(BranchCalls) = 2
          \/ Succeeded("git.deleteRef") # {} /\ Cardinality(BranchCalls) = 4

\* C38 witness: the branch was behind the default branch; the create was
\* refused, the update with the same commit id moved it to the tip, and the
\* file write is next.
UpdatedToTip ==
  /\ pc = "commit"
  /\ OtherRunQuiet
  /\ suspended.pc # "start"
  /\ Failed("git.createRef") # {}
  /\ Succeeded("git.updateRef") # {}
  /\ \A i \in Idx("git.createRef") \cup Idx("git.updateRef") : log[i].sha = commitSha(2)
  /\ remote.repo.head = 2

\* What a run rendered and wrote, read from its call record l.
MarkupOf(l) ==
  {l[i].value : i \in {j \in DOMAIN l : l[j].op = "setOutput"
                                        /\ l[j].name = "badges-markdown"}}
WrittenBy(l) ==
  {l[i].content : i \in {j \in DOMAIN l : l[j].op = "writeFileSync" /\ l[j].ok}}

\* The arguments of the run's call of generateAllBadges.
RenderArguments == <<products, badgeTypes, style, linkTo, badgeBaseUrl>>
RenderArgumentsOfOther ==
  <<suspended.products, suspended.badgeTypes, suspended.style, suspended.linkTo,
    suspended.badgeBaseUrl>>

====
